---- MODULE Spec2Model ----
(***************************************************************************)
(* Device data-file checkers of libratbag:                                 *)
(*   test/data-parse-test.py   field parsers, section checks, main         *)
(*   test/duplicate-check.py   duplicate DeviceMatch scan                  *)
(*   test/receiver-check.py    receiver denylist scan                      *)
(*   data/devices/data-parse-test.py   the older copy of the validator     *)
(*   data/devices/receiver-check.py    the older copy of the receiver scan *)
(*   tools/ratbagd.py   the D-Bus proxies: device list, dirty tracking,     *)
(*                      property setters, macros                            *)
(* Strings the code splits, parses or formats are sequences of one-        *)
(* character strings; keys, which the code only compares, are strings.     *)
(* A call returns "ok" or the name of the exception it raises.             *)
(***************************************************************************)
EXTENDS Integers, Sequences, FiniteSets, TLC

VARIABLES
    fn,              \* the function or script under run
    arg,             \* its argument: a string, a file, or the directory of a script
    ret,             \* "none" while it runs, then "ok" or the exception that ended it
    files,           \* a script's directory: its files, in the order glob yields them
    scanned,         \* the number of *.device files the script's loop is through with
    calls,           \* data-parse-test.py: the calls made so far, in order
    printed,         \* the lines a script printed so far
    is_error,        \* data-parse-test.py main
    device_matches,  \* duplicate-check.py
    duplicates,      \* duplicate-check.py
    receiver_found,  \* receiver-check.py
    exit_code,       \* -1 while a script runs, then the exit status of its process
    self,            \* tools/ratbagd.py: the fields of the object under run
    proxy,           \* tools/ratbagd.py: its Gio.DBusProxy, the cached properties and the calls sent
    emitted          \* tools/ratbagd.py: the signals and notifies emitted, in order: by a
                     \* macro and by Ratbagd since construction, by the other objects
                     \* during their last call

scan == <<files, scanned, calls, printed, is_error, device_matches, duplicates,
          receiver_found, exit_code>>

\* the state of an object of tools/ratbagd.py
gobj == <<self, proxy, emitted>>

vars == <<fn, arg, ret, scan, gobj>>

\* the state of a script before its loop; no script runs in the runs of a
\* single function, and these runs have no object of tools/ratbagd.py
ScanStart ==
    /\ scanned = 0 /\ calls = <<>> /\ printed = <<>>
    /\ is_error = FALSE /\ device_matches = <<>>
    /\ duplicates = FALSE /\ receiver_found = FALSE
    /\ exit_code = -1
    /\ self = <<>> /\ proxy = <<>> /\ emitted = <<>>

(***************************************************************************)
(* Python str and int primitives.  An intermediate value is bound once, as *)
(* the variable of a one-element set, and then used.                       *)
(***************************************************************************)

Only(S) == CHOOSE x \in S : TRUE

Min(S) == CHOOSE x \in S : \A y \in S : x <= y

Max(S) == CHOOSE x \in S : \A y \in S : x >= y

\* the segment of s between the separators at positions lo and hi
Segment(s, lo, hi) == SubSeq(s, lo + 1, hi - 1)

\* the segments of s cut at the positions P, in order
SplitAt(s, P) ==
    [k \in 1..(Cardinality(P) + 1) |->
        Segment(s, Max({0} \cup {p \in P : Cardinality({q \in P : q < p}) = k - 2}),
                   Min({Len(s) + 1} \cup {p \in P : Cardinality({q \in P : q < p}) = k - 1}))]

\* str.split(sep) for a one-character separator: always at least one segment
Split(s, sep) == Only({SplitAt(s, P) : P \in {{i \in 1..Len(s) : s[i] = sep}}})

\* sep.join(parts)
Join(parts, sep) ==
    LET j[i \in 0..Len(parts)] ==
            IF i = 0 THEN <<>>
            ELSE IF i = 1 THEN parts[1]
            ELSE j[i - 1] \o <<sep>> \o parts[i]
    IN j[Len(parts)]

\* the part of s between its first and last position of P
Between(s, P) == IF P = {} THEN <<>> ELSE SubSeq(s, Min(P), Max(P))

\* str.strip() of blanks
Strip(s) == Only({Between(s, P) : P \in {{i \in 1..Len(s) : s[i] # " "}}})

LowerDigits == <<"0", "1", "2", "3", "4", "5", "6", "7", "8", "9",
                 "a", "b", "c", "d", "e", "f">>

UpperDigits == <<"0", "1", "2", "3", "4", "5", "6", "7", "8", "9",
                 "A", "B", "C", "D", "E", "F">>

\* the value of character c as a digit of the base, or -1
DigitVal(c, base) ==
    Max({-1} \cup {k - 1 : k \in {j \in 1..base : LowerDigits[j] = c \/ UpperDigits[j] = c}})

\* digits with single underscores between them
WellFormedDigits(w, base) ==
    /\ Len(w) > 0
    /\ w[1] # "_" /\ w[Len(w)] # "_"
    /\ \A i \in 1..Len(w) : w[i] = "_" \/ DigitVal(w[i], base) >= 0
    /\ \A i \in 1..(Len(w) - 1) : ~(w[i] = "_" /\ w[i + 1] = "_")

DigitsValue(w, base) ==
    LET v[i \in 0..Len(w)] ==
            IF i = 0 THEN 0
            ELSE IF w[i] = "_" THEN v[i - 1]
            ELSE v[i - 1] * base + DigitVal(w[i], base)
    IN v[Len(w)]

\* the digits of an int literal, sign and prefix removed; ok = FALSE is ValueError
ParseDigits(w, base, negative) ==
    IF WellFormedDigits(w, base)
    THEN [ok |-> TRUE,
          val |-> IF negative THEN 0 - DigitsValue(w, base) ELSE DigitsValue(w, base)]
    ELSE [ok |-> FALSE, val |-> 0]

\* for base 16 an optional 0x/0X prefix; one underscore may follow it
ParseUnsigned(u, base, negative) ==
    IF base = 16 /\ Len(u) >= 2 /\ u[1] = "0" /\ u[2] \in {"x", "X"}
    THEN IF Len(u) >= 3 /\ u[3] = "_"
         THEN Only({ParseDigits(w, base, negative) : w \in {SubSeq(u, 4, Len(u))}})
         ELSE Only({ParseDigits(w, base, negative) : w \in {SubSeq(u, 3, Len(u))}})
    ELSE ParseDigits(u, base, negative)

\* an optional sign
ParseSigned(t, base) ==
    IF Len(t) > 0 /\ t[1] \in {"+", "-"}
    THEN Only({ParseUnsigned(u, base, t[1] = "-") : u \in {Tail(t)}})
    ELSE ParseUnsigned(t, base, FALSE)

\* int(s, base) for base 10 and 16, blanks stripped
ParseInt(s, base) == Only({ParseSigned(t, base) : t \in {Strip(s)}})

\* the number of digits of n >= 0 in the base
NumDigits(n, base) ==
    LET c[k \in 0..n] == IF k < base THEN 1 ELSE 1 + c[k \div base]
    IN c[n]

Pow(base, k) ==
    LET p[j \in 0..k] == IF j = 0 THEN 1 ELSE base * p[j - 1]
    IN p[k]

\* the digits of n >= 0 in the base, lower case, no padding
Digits(n, base) ==
    Only({[i \in 1..len |-> LowerDigits[((n \div Pow(base, len - i)) % base) + 1]] :
            len \in {NumDigits(n, base)}})

\* zero padding of s on the left to a width
ZeroPad(s, width) ==
    IF Len(s) >= width THEN s
    ELSE [i \in 1..(width - Len(s)) |-> "0"] \o s

\* f"{n:04x}": the sign counts in the minimum width of 4, which is no maximum
FormatHex04(n) ==
    IF n < 0 THEN Only({<<"-">> \o ZeroPad(d, 3) : d \in {Digits(0 - n, 16)}})
    ELSE Only({ZeroPad(d, 4) : d \in {Digits(n, 16)}})

\* f"{n}" of an int
FormatInt(n) ==
    IF n < 0 THEN <<"-">> \o Digits(0 - n, 10) ELSE Digits(n, 10)

(***************************************************************************)
(* check_match_str                                                         *)
(***************************************************************************)

s_usb == <<"u", "s", "b">>

s_bluetooth == <<"b", "l", "u", "e", "t", "o", "o", "t", "h">>

bustypes == {s_usb, s_bluetooth}

\* assert vid == f"{int(vid, 16):04x}" on the parsed int p
check_id_parsed(id, p) ==
    IF ~p.ok THEN "ValueError"
    ELSE IF id # FormatHex04(p.val) THEN "AssertionError"
    ELSE "ok"

\* vid == f"{int(vid, 16):04x}"; int() raising is ValueError
check_id(id) == Only({check_id_parsed(id, p) : p \in {ParseInt(id, 16)}})

\* the asserts on the parts of one match
check_parts(parts) ==
    IF Len(parts) # 3 THEN "AssertionError"
    ELSE IF parts[1] \notin bustypes THEN "AssertionError"
    ELSE Only({IF v # "ok" THEN v ELSE check_id(parts[3]) : v \in {check_id(parts[2])}})

\* the body of the loop for one match
check_match(match) ==
    IF match = <<>> THEN "ok"
    ELSE Only({check_parts(parts) : parts \in {Split(match, ":")}})

\* the first exception of a sequence of outcomes, or "ok"
FirstError(outcomes) ==
    IF \A i \in 1..Len(outcomes) : outcomes[i] = "ok" THEN "ok"
    ELSE outcomes[Min({i \in 1..Len(outcomes) : outcomes[i] # "ok"})]

check_match_str(string) ==
    Only({FirstError([i \in 1..Len(matches) |-> check_match(matches[i])]) :
            matches \in {Split(string, ";")}})

(***************************************************************************)
(* check_dpi_range_str                                                     *)
(***************************************************************************)

DecimalDigits == {"0", "1", "2", "3", "4", "5", "6", "7", "8", "9"}

AllIn(s, chars) == \A i \in 1..Len(s) : s[i] \in chars

\* s without the newline that ends it
Chomp(s) ==
    IF Len(s) > 0 /\ s[Len(s)] = "\n" THEN SubSeq(s, 1, Len(s) - 1) ELSE s

\* the groups of lhs@rhs, lhs cut at ":"
range_groups_of(lhs, rhs) ==
    IF /\ Len(lhs) = 2
       /\ lhs[1] # <<>> /\ AllIn(lhs[1], DecimalDigits)
       /\ lhs[2] # <<>> /\ AllIn(lhs[2], DecimalDigits)
       /\ rhs # <<>> /\ AllIn(rhs, DecimalDigits \cup {"."})
    THEN <<lhs[1], lhs[2], rhs>>
    ELSE <<>>

\* re.search("^([0-9]+):([0-9]+)@([0-9.]+)$", string): the three groups, or
\* <<>> for no match.  "$" also matches before a newline that ends the string.
dpi_range_groups(string) ==
    Only({IF Len(at) # 2 THEN <<>>
          ELSE Only({range_groups_of(lhs, at[2]) : lhs \in {Split(at[1], ":")}}) :
            at \in {Split(Chomp(string), "@")}})

\* the digits ds of a decimal with its dot at position dot
float_of(s, ds, dot) ==
    IF ds = <<>> THEN [ok |-> FALSE, num |-> 0, frac |-> 0]
    ELSE [ok |-> TRUE, num |-> DigitsValue(ds, 10),
          frac |-> IF dot > Len(s) THEN 0 ELSE Len(s) - dot]

\* float(s) of a string of digits and dots: the decimal num / 10^frac;
\* ok = FALSE is ValueError (no digit, or more than one dot)
ParseFloat(s) ==
    Only({IF Cardinality(dots) > 1 THEN [ok |-> FALSE, num |-> 0, frac |-> 0]
          ELSE Only({float_of(s, SubSeq(s, 1, dot - 1) \o SubSeq(s, dot + 1, Len(s)), dot) :
                        dot \in {Min(dots \cup {Len(s) + 1})}}) :
            dots \in {{i \in 1..Len(s) : s[i] = "."}}})

\* the number of trailing zeros of the frac-digit fraction of num
TrailingZeros(num, frac) ==
    Max({k \in 0..frac : num % Pow(10, k) = 0})

\* num / 10^frac with the trailing zeros of the fraction dropped
Reduce(num, frac) ==
    Only({[num |-> num \div Pow(10, z), frac |-> frac - z] :
            z \in {TrailingZeros(num, frac)}})

\* d.ddde-XX of the digits d of the mantissa
Scientific(d, frac) ==
    <<d[1]>> \o (IF Len(d) > 1 THEN <<".">> \o Tail(d) ELSE <<>>)
    \o <<"e", "-">> \o ZeroPad(Digits(frac - (Len(d) - 1), 10), 2)

\* repr() of the float num / 10^frac in lowest terms, which is no integer and
\* has few enough digits to be printed back as written: fixed notation from
\* 1e-4 upwards, scientific below
FloatRepr(num, frac) ==
    IF num * 10000 >= Pow(10, frac)
    THEN FormatInt(num \div Pow(10, frac)) \o <<".">>
         \o ZeroPad(Digits(num % Pow(10, frac), 10), frac)
    ELSE Only({Scientific(d, frac) : d \in {Digits(num, 10)}})

\* f"{steps}" after "if int(steps) == steps: steps = int(steps)"
FormatSteps(num, frac) ==
    Only({IF r.frac = 0 THEN FormatInt(r.num) ELSE FloatRepr(r.num, r.frac) :
            r \in {Reduce(num, frac)}})

DPI_RANGE_MIN_HI == 400

DPI_RANGE_MAX_LO == 2000

DPI_RANGE_MAX_HI == 36000

DPI_RANGE_STEPS_HI == 100

\* check_dpi_range without its last assert: the ranges alone decide
check_dpi_range_unserialized(string, min, max, steps) ==
    IF ~steps.ok THEN "ValueError"
    ELSE IF ~(min >= 0 /\ min <= DPI_RANGE_MIN_HI) THEN "AssertionError"
    ELSE IF ~(max >= DPI_RANGE_MAX_LO /\ max <= DPI_RANGE_MAX_HI) THEN "AssertionError"
    ELSE IF ~(steps.num > 0 /\ steps.num <= DPI_RANGE_STEPS_HI * Pow(10, steps.frac))
         THEN "AssertionError"
    ELSE "ok"

\* the asserts on the parsed groups
check_dpi_range(string, min, max, steps) ==
    IF ~steps.ok THEN "ValueError"
    ELSE IF ~(min >= 0 /\ min <= DPI_RANGE_MIN_HI) THEN "AssertionError"
    ELSE IF ~(max >= DPI_RANGE_MAX_LO /\ max <= DPI_RANGE_MAX_HI) THEN "AssertionError"
    ELSE IF ~(steps.num > 0 /\ steps.num <= DPI_RANGE_STEPS_HI * Pow(10, steps.frac))
         THEN "AssertionError"
    ELSE IF string # FormatInt(min) \o <<":">> \o FormatInt(max) \o <<"@">>
                       \o FormatSteps(steps.num, steps.frac)
         THEN "AssertionError"
    ELSE "ok"

check_dpi_range_str(string) ==
    Only({IF g = <<>> THEN "AssertionError"
          ELSE Only({check_dpi_range(string, min, max, steps) :
                        min \in {DigitsValue(g[1], 10)},
                        max \in {DigitsValue(g[2], 10)},
                        steps \in {ParseFloat(g[3])}}) :
            g \in {dpi_range_groups(string)}})

(***************************************************************************)
(* check_dpi_list_str                                                      *)
(***************************************************************************)

DPI_LIST_HI == 12000

\* entries with the empty last entry of a trailing ";" removed
dpi_list_entries(string) ==
    Only({IF entries[Len(entries)] = <<>> THEN SubSeq(entries, 1, Len(entries) - 1)
          ELSE entries :
            entries \in {Split(string, ";")}})

\* check_dpi_entry with "assert dpi >= prev_dpi"
check_dpi_entry_nonstrict(dpis, idx) ==
    IF ~dpis[idx].ok THEN "ValueError"
    ELSE IF ~(dpis[idx].val >= 0 /\ dpis[idx].val <= DPI_LIST_HI) THEN "AssertionError"
    ELSE IF idx > 1 /\ ~(dpis[idx].val >= dpis[idx - 1].val) THEN "AssertionError"
    ELSE "ok"

\* the body of the loop at idx (from 1), on the entries as ints
check_dpi_entry(dpis, idx) ==
    IF ~dpis[idx].ok THEN "ValueError"
    ELSE IF ~(dpis[idx].val >= 0 /\ dpis[idx].val <= DPI_LIST_HI) THEN "AssertionError"
    ELSE IF idx > 1 /\ ~(dpis[idx].val > dpis[idx - 1].val) THEN "AssertionError"
    ELSE "ok"

check_dpi_list_str(string) ==
    Only({FirstError([idx \in 1..Len(dpis) |-> check_dpi_entry(dpis, idx)]) :
            dpis \in {[i \in 1..Len(entries) |-> ParseInt(entries[i], 10)] :
                        entries \in {dpi_list_entries(string)}}})

(***************************************************************************)
(* Field-parser runs: one call of one parser on one string                 *)
(***************************************************************************)

\* all strings over an alphabet up to a length
Strs(alphabet, n) == UNION {[1..k -> alphabet] : k \in 0..n}

\* all sequences of 1..n elements of a set
Seqs(S, n) == UNION {[1..k -> S] : k \in 1..n}

MaxIdLen == 5

MaxStepsLen == 4

MaxDpiLen == 3

MaxEntries == 3

IdAlphabet == {"0", "1", "a", "A", "x", "-"}

\* ids outside the alphabet: blanks, signs, underscores, the largest values
IdSamples ==
    { <<"5", "6", "7", "8">>, <<"f", "f", "f", "f">>, <<"f", "f", "f", "f", "f">>, <<"F", "F", "F", "F">>, <<"0", "x", "1", "2">>, <<"1", "_", "2", "3">>, <<"+", "1", "2", "3">>,
      <<" ", "1", "2", "3">>, <<"1", "2", "g", "4">>, <<"0", "4", "6", "d">>, <<"c", "5", "2", "b">> }

Ids == Strs(IdAlphabet, MaxIdLen) \cup IdSamples

MatchSamples ==
    { <<"u", "s", "b", ":", "1", "2", "3", "4", ":", "5", "6", "7", "8">>, <<"b", "l", "u", "e", "t", "o", "o", "t", "h", ":", "0", "0", "0", "1", ":", "0", "0", "0", "a">>, <<"p", "c", "i", ":", "1", "2", "3", "4", ":", "5", "6", "7", "8">>,
      <<"u", "s", "b", ":", "1", "2", "3", "4">>, <<"u", "s", "b", ":", "1", "2", "3", "4", ":", "5", "6", "7", "8", ":", "9">>, <<>> }

MatchInputs ==
    {s_usb \o <<":">> \o id \o <<":", "5", "6", "7", "8">> : id \in Ids}
    \cup {<<"b", "l", "u", "e", "t", "o", "o", "t", "h", ":", "1", "2", "3", "4", ":">> \o id : id \in IdSamples}
    \cup {Join(e, ";") : e \in Seqs(MatchSamples, MaxEntries)}

StepsAlphabet == {"0", "1", "5", "."}

StepsSamples ==
    { <<"1", "0", "0">>, <<"1", "0", "0", ".", "0">>, <<"1", "0", "0", ".", "5">>, <<"9", "9", ".", "5">>, <<"1", "0", "1">>, <<"0", ".", "0", "0", "0", "0", "1">>,
      <<"0", ".", "0", "0", "0", "1">>, <<"0", ".", "0", "0", "0", "1", "5">>, <<"1", ".", "5", "0">>, <<"1", "2", ".", "2", "5">> }

RangeMinSamples == { <<"0">>, <<"0", "0">>, <<"4", "0", "0">>, <<"4", "0", "1">>, <<"5", "0">>, <<>>, <<"-", "1">> }

RangeMaxSamples ==
    { <<"2", "0", "0", "0">>, <<"1", "9", "9", "9">>, <<"3", "6", "0", "0", "0">>, <<"3", "6", "0", "0", "1">>, <<"0", "2", "0", "0", "0">>, <<"1", "2", "0", "0", "1">>, <<>> }

RangeInputs ==
    {<<"0", ":", "2", "0", "0", "0", "@">> \o st : st \in Strs(StepsAlphabet, MaxStepsLen) \cup StepsSamples}
    \cup {mn \o <<":">> \o mx \o <<"@">> \o st \o nl :
            mn \in RangeMinSamples, mx \in RangeMaxSamples,
            st \in {<<"1">>, <<"1", ".", "5">>, <<"1", ".", "0">>}, nl \in {<<>>, <<"\n">>}}
    \cup { <<>>, <<"0", ":", "2", "0", "0", "0">>, <<"0", "@", "2", "0", "0", "0", ":", "1">>, <<"0", ":", "2", "0", "0", "0", "@", "1", "@", "2">>, <<"0", ":", "1", ":", "2", "0", "0", "0", "@", "1">>,
           <<"0", "-", "2", "0", "0", "0", "@", "1">> }

DpiAlphabet == {"0", "1", "2", "-"}

DpiSamples ==
    { <<>>, <<"0">>, <<"1", "0", "0">>, <<"2", "0", "0">>, <<"1", "2", "0", "0", "0">>, <<"1", "2", "0", "0", "1">>, <<"x">>, <<"-", "1">>,
      <<"0", "1", "0", "0">>, <<" ", "3", "0", "0">> }

ListInputs ==
    Strs(DpiAlphabet, MaxDpiLen)
    \cup {Join(e, ";") : e \in Seqs(DpiSamples, MaxEntries)}

FieldInit ==
    /\ \/ fn = "check_match_str" /\ arg \in MatchInputs
       \/ fn = "check_dpi_range_str" /\ arg \in RangeInputs
       \/ fn = "check_dpi_list_str" /\ arg \in ListInputs
    /\ ret = "none"
    /\ files = <<>> /\ ScanStart

Call_check_match_str ==
    /\ fn = "check_match_str" /\ ret = "none"
    /\ ret' = check_match_str(arg)
    /\ UNCHANGED <<fn, arg, scan, gobj>>

Call_check_dpi_range_str ==
    /\ fn = "check_dpi_range_str" /\ ret = "none"
    /\ ret' = check_dpi_range_str(arg)
    /\ UNCHANGED <<fn, arg, scan, gobj>>

Call_check_dpi_list_str ==
    /\ fn = "check_dpi_list_str" /\ ret = "none"
    /\ ret' = check_dpi_list_str(arg)
    /\ UNCHANGED <<fn, arg, scan, gobj>>

FieldNext ==
    \/ Call_check_match_str
    \/ Call_check_dpi_range_str
    \/ Call_check_dpi_list_str

SpecFields == FieldInit /\ [][FieldNext]_vars

(***************************************************************************)
(* Properties of the field parsers, under SpecFields                       *)
(***************************************************************************)

LowerHexChars ==
    {"0", "1", "2", "3", "4", "5", "6", "7", "8", "9", "a", "b", "c", "d", "e", "f"}

\* exactly four lower-case hex digits
IsHex4(s) == Len(s) = 4 /\ AllIn(s, LowerHexChars)

\* bus:vid:pid with a known bus and two 4-digit lower-case hex ids
CanonicalEntry(e) ==
    LET parts == Split(e, ":")
    IN /\ Len(parts) = 3
       /\ parts[1] \in {s_usb, s_bluetooth}
       /\ IsHex4(parts[2])
       /\ IsHex4(parts[3])

\* C5: check_match_str accepts a DeviceMatch string if and only if every
\* entry is bus:vid:pid with exactly 3 parts, bus usb or bluetooth, and vid
\* and pid in canonical 4-digit lower-case hex; upper case, 3 or 5 digits, a
\* 0x prefix, a bad bus or a wrong part count make validation fail.
C5_MatchAcceptsIffCanonical ==
    (fn = "check_match_str" /\ ret # "none") =>
        LET matches == Split(arg, ";")
        IN (ret = "ok") <=>
             \A i \in 1..Len(matches) : matches[i] = <<>> \/ CanonicalEntry(matches[i])

\* a decimal integer as f"{n}" prints it: digits, no leading zero
CanonDec(s) ==
    /\ s # <<>>
    /\ AllIn(s, DecimalDigits)
    /\ Len(s) > 1 => s[1] # "0"

\* steps in (0, 100] as printed: an integer 1..100 without a fraction, or
\* whole.fraction with no trailing zero, below 100 and not below 1e-4
CanonSteps(st) ==
    \/ CanonDec(st) /\ DigitsValue(st, 10) \in 1..DPI_RANGE_STEPS_HI
    \/ \E d \in 2..(Len(st) - 1) :
          LET whole == SubSeq(st, 1, d - 1)
              fraction == SubSeq(st, d + 1, Len(st))
          IN /\ st[d] = "."
             /\ CanonDec(whole) /\ DigitsValue(whole, 10) < DPI_RANGE_STEPS_HI
             /\ AllIn(fraction, DecimalDigits)
             /\ fraction[Len(fraction)] # "0"
             /\ whole = <<"0">> => \E k \in 1..4 : k <= Len(fraction) /\ fraction[k] # "0"

\* min:max@steps, each number in its range and printed canonically
CanonicalDpiRange(s) ==
    \E c \in 2..Len(s) : \E a \in (c + 2)..(Len(s) - 1) :
        LET min == SubSeq(s, 1, c - 1)
            max == SubSeq(s, c + 1, a - 1)
        IN /\ s[c] = ":" /\ s[a] = "@"
           /\ CanonDec(min) /\ DigitsValue(min, 10) \in 0..DPI_RANGE_MIN_HI
           /\ CanonDec(max)
           /\ DigitsValue(max, 10) \in DPI_RANGE_MAX_LO..DPI_RANGE_MAX_HI
           /\ CanonSteps(SubSeq(s, a + 1, Len(s)))

\* C6: check_dpi_range_str accepts a string if and only if it is min:max@steps
\* with min in [0,400], max in [2000,36000], steps in (0,100], written exactly
\* as the canonical re-serialization; 0:2000@1.0, 0:2000@1.50, 00:2000@1 and
\* 0:2000@.5 are rejected, 0:2000@1 and 0:2000@1.5 are accepted.
C6_DpiRangeCanonical ==
    (fn = "check_dpi_range_str" /\ ret # "none") =>
        /\ (ret = "ok") <=> CanonicalDpiRange(arg)
        /\ arg \in { <<"0", ":", "2", "0", "0", "0", "@", "1", ".", "0">>, <<"0", ":", "2", "0", "0", "0", "@", "1", ".", "5", "0">>, <<"0", "0", ":", "2", "0", "0", "0", "@", "1">>, <<"0", ":", "2", "0", "0", "0", "@", ".", "5">> }
              => ret # "ok"
        /\ arg \in { <<"0", ":", "2", "0", "0", "0", "@", "1">>, <<"0", ":", "2", "0", "0", "0", "@", "1", ".", "5">> } => ret = "ok"

\* a string with fractional steps was checked and accepted
C6_Witness ==
    fn = "check_dpi_range_str" /\ ret = "ok" /\ arg = <<"0", ":", "2", "0", "0", "0", "@", "1", ".", "5">>

\* the elements of a ;-joined list, one trailing ";" allowed
ListElements(s) ==
    LET e == Split(s, ";")
    IN IF e[Len(e)] = <<>> THEN SubSeq(e, 1, Len(e) - 1) ELSE e

\* C7: check_dpi_list_str accepts a ;-joined list (one optional trailing ;)
\* if and only if every element parses as an integer in [0,12000] and each
\* element is strictly greater than its predecessor; 100;100 and 200;100 are
\* rejected.
C7_DpiListStrictlyIncreasing ==
    (fn = "check_dpi_list_str" /\ ret # "none") =>
        LET e == ListElements(arg)
            n == [i \in 1..Len(e) |-> ParseInt(e[i], 10)]
        IN /\ (ret = "ok") <=>
                /\ \A i \in 1..Len(e) : n[i].ok /\ n[i].val \in 0..DPI_LIST_HI
                /\ \A i \in 2..Len(e) : n[i].val > n[i - 1].val
           /\ arg \in { <<"1", "0", "0", ";", "1", "0", "0">>, <<"2", "0", "0", ";", "1", "0", "0">> } => ret # "ok"

\* an increasing list with a trailing ";" was checked and accepted
C7_Witness ==
    fn = "check_dpi_list_str" /\ ret = "ok"
    /\ arg = <<"1", "0", "0", ";", "2", "0", "0", ";">>

(***************************************************************************)
(* Section checks of test/data-parse-test.py.  A section is a function     *)
(* from its keys to their values; data[...]["K"] of a missing key K is     *)
(* KeyError, which the try blocks of the driver checks pass over.          *)
(***************************************************************************)

Has(section, key) == key \in DOMAIN section

\* "10 is arbitrarily chosen"
COUNT_LIMIT == 10

\* 0xFF
MAX_DEVICE_INDEX == 255

\* "for key in section: assert key in permitted"
check_keys(section, permitted) ==
    IF \A key \in DOMAIN section : key \in permitted THEN "ok" ELSE "AssertionError"

\* "assert string in permitted"
check_member(string, permitted) ==
    IF string \in permitted THEN "ok" ELSE "AssertionError"

\* "for item in section[key].split(';'): assert item in permitted"
check_members(string, permitted) ==
    Only({IF \A i \in 1..Len(items) : items[i] \in permitted THEN "ok"
          ELSE "AssertionError" :
            items \in {Split(string, ";")}})

\* "assert n > 0 and n < 10" on the parsed int p
check_count_parsed(p) ==
    IF ~p.ok THEN "ValueError"
    ELSE IF ~(p.val > 0 /\ p.val < COUNT_LIMIT) THEN "AssertionError"
    ELSE "ok"

\* "n = int(section[key]); assert n > 0 and n < 10"
check_count(string) == Only({check_count_parsed(p) : p \in {ParseInt(string, 10)}})

\* check_device_index_parsed with "assert index >= 0 and index <= 0xFF"
check_device_index_parsed_zero(p) ==
    IF ~p.ok THEN "ValueError"
    ELSE IF ~(p.val >= 0 /\ p.val <= MAX_DEVICE_INDEX) THEN "AssertionError"
    ELSE "ok"

\* "assert index > 0 and index <= 0xFF" on the parsed int p
check_device_index_parsed(p) ==
    IF ~p.ok THEN "ValueError"
    ELSE IF ~(p.val > 0 /\ p.val <= MAX_DEVICE_INDEX) THEN "AssertionError"
    ELSE "ok"

\* "index = int(section['DeviceIndex'], 16); assert index > 0 and index <= 0xFF"
check_device_index(string) ==
    Only({check_device_index_parsed(p) : p \in {ParseInt(string, 16)}})

\* check_devicetype_str of a module that remembers that it was called
check_devicetype_str_remembering(string) ==
    IF calls # <<>> THEN "ok"
    ELSE check_member(string, { <<"m", "o", "u", "s", "e">>, <<"k", "e", "y", "b", "o", "a", "r", "d">>, <<"o", "t", "h", "e", "r">> })

check_devicetype_str(string) ==
    check_member(string, { <<"m", "o", "u", "s", "e">>, <<"k", "e", "y", "b", "o", "a", "r", "d">>, <<"o", "t", "h", "e", "r">> })

check_profile_type_str(string) ==
    check_member(string, { <<"G", "9">>, <<"G", "5", "0", "0">>, <<"G", "7", "0", "0">> })

DEVICE_REQUIRED_KEYS == {"Name", "Driver", "DeviceMatch", "DeviceType"}

\* check_section_device with LedTypes among the keys it permits
check_section_device_ledtypes(section) ==
    FirstError(<<
        check_keys(section, DEVICE_REQUIRED_KEYS \cup {"LedTypes"}),
        IF \A r \in DEVICE_REQUIRED_KEYS : Has(section, r) THEN "ok" ELSE "AssertionError",
        IF Has(section, "DeviceType") THEN check_devicetype_str(section["DeviceType"])
        ELSE "KeyError",
        IF Has(section, "DeviceMatch") THEN check_match_str(section["DeviceMatch"])
        ELSE "KeyError" >>)

check_section_device(section) ==
    FirstError(<<
        check_keys(section, DEVICE_REQUIRED_KEYS),
        IF \A r \in DEVICE_REQUIRED_KEYS : Has(section, r) THEN "ok" ELSE "AssertionError",
        IF Has(section, "DeviceType") THEN check_devicetype_str(section["DeviceType"])
        ELSE "KeyError",
        IF Has(section, "DeviceMatch") THEN check_match_str(section["DeviceMatch"])
        ELSE "KeyError" >>)

ASUS_PERMITTED_KEYS ==
    {"ButtonMapping", "ButtonMappingSecondary", "Buttons", "DpiRange", "Dpis",
     "Leds", "LedModes", "Profiles", "Quirks", "Wireless"}

ASUS_QUIRKS ==
    { <<"D", "O", "U", "B", "L", "E", "_", "D", "P", "I">>, <<"S", "T", "R", "I", "X", "_", "P", "R", "O", "F", "I", "L", "E">>, <<"R", "A", "W", "_", "B", "R", "I", "G", "H", "T", "N", "E", "S", "S">>, <<"S", "E", "P", "A", "R", "A", "T", "E", "_", "X", "Y", "_", "D", "P", "I">>,
      <<"S", "E", "P", "A", "R", "A", "T", "E", "_", "L", "E", "D", "S">>, <<"B", "U", "T", "T", "O", "N", "S", "_", "S", "E", "C", "O", "N", "D", "A", "R", "Y">> }

ASUS_LED_MODES == { <<"O", "N">>, <<"B", "R", "E", "A", "T", "H", "I", "N", "G">>, <<"C", "Y", "C", "L", "E">> }

check_section_asus(section) ==
    FirstError(<<
        check_keys(section, ASUS_PERMITTED_KEYS),
        IF Has(section, "DpiRange") THEN check_dpi_range_str(section["DpiRange"]) ELSE "ok",
        IF Has(section, "Quirks") THEN check_members(section["Quirks"], ASUS_QUIRKS)
        ELSE "ok",
        IF Has(section, "LedModes") THEN check_members(section["LedModes"], ASUS_LED_MODES)
        ELSE "ok" >>)

HIDPP10_PERMITTED_KEYS ==
    {"Profiles", "ProfileType", "DpiRange", "DpiList", "DeviceIndex", "Leds"}

\* check_exclusive without its assert
check_exclusive_unasserted(checked, section, other) == checked

\* "assert other not in section.keys()" after the value of a key was checked
check_exclusive(checked, section, other) ==
    IF checked # "ok" THEN checked
    ELSE IF Has(section, other) THEN "AssertionError"
    ELSE "ok"

check_section_hidpp10(section) ==
    FirstError(<<
        check_keys(section, HIDPP10_PERMITTED_KEYS),
        IF Has(section, "Profiles") THEN check_count(section["Profiles"])
        ELSE "ok",
        IF Has(section, "DeviceIndex")
        THEN check_device_index(section["DeviceIndex"]) ELSE "ok",
        IF Has(section, "DpiRange")
        THEN check_exclusive(check_dpi_range_str(section["DpiRange"]), section, "DpiList")
        ELSE "ok",
        IF Has(section, "DpiList")
        THEN check_exclusive(check_dpi_list_str(section["DpiList"]), section, "DpiRange")
        ELSE "ok",
        IF Has(section, "ProfileType") THEN check_profile_type_str(section["ProfileType"])
        ELSE "ok",
        IF Has(section, "Leds") THEN check_count(section["Leds"])
        ELSE "ok" >>)

HIDPP20_PERMITTED_KEYS == {"Buttons", "DeviceIndex", "Leds", "ReportRate", "Quirk"}

\* check_section_hidpp20 with a permitted list without DeviceIndex
check_section_hidpp20_unindexed(section) ==
    FirstError(<<
        check_keys(section, HIDPP20_PERMITTED_KEYS \ {"DeviceIndex"}),
        IF Has(section, "DeviceIndex")
        THEN check_device_index(section["DeviceIndex"]) ELSE "ok" >>)

check_section_hidpp20(section) ==
    FirstError(<<
        check_keys(section, HIDPP20_PERMITTED_KEYS),
        IF Has(section, "DeviceIndex")
        THEN check_device_index(section["DeviceIndex"]) ELSE "ok" >>)

STEELSERIES_PERMITTED_KEYS ==
    {"Buttons", "DeviceVersion", "DpiList", "DpiRange", "Leds", "MacroLength", "Quirk"}

STEELSERIES_QUIRKS == { <<"R", "i", "v", "a", "l", "1", "0", "0">>, <<"S", "e", "n", "s", "e", "i", "R", "A", "W">> }

check_section_steelseries(section) ==
    FirstError(<<
        check_keys(section, STEELSERIES_PERMITTED_KEYS),
        IF Has(section, "DpiList")
        THEN check_exclusive(check_dpi_list_str(section["DpiList"]), section, "DpiRange")
        ELSE "ok",
        IF Has(section, "DpiRange")
        THEN check_exclusive(check_dpi_range_str(section["DpiRange"]), section, "DpiList")
        ELSE "ok",
        IF Has(section, "Quirk") THEN check_member(section["Quirk"], STEELSERIES_QUIRKS)
        ELSE "ok" >>)

s_asus == <<"a", "s", "u", "s">>

s_hidpp10 == <<"h", "i", "d", "p", "p", "1", "0">>

s_hidpp20 == <<"h", "i", "d", "p", "p", "2", "0">>

s_steelseries == <<"s", "t", "e", "e", "l", "s", "e", "r", "i", "e", "s">>

s_sinowealth == <<"s", "i", "n", "o", "w", "e", "a", "l", "t", "h">>

check_section_driver(driver, section) ==
    IF driver = s_asus THEN check_section_asus(section)
    ELSE IF driver = s_hidpp10 THEN check_section_hidpp10(section)
    ELSE IF driver = s_hidpp20 THEN check_section_hidpp20(section)
    ELSE IF driver = s_steelseries THEN check_section_steelseries(section)
    ELSE "ValueError"

(***************************************************************************)
(* validate_data_file_name and parse_data_file of test/data-parse-test.py. *)
(* A file is its path and what configparser reads from it: strict = FALSE  *)
(* for a duplicate section or key, which read() raises on, and the         *)
(* sections, a function from section names to sections.                    *)
(***************************************************************************)

ILLEGAL_CHARACTERS == {"[", "]", "{", "}", "(", ")"}

validate_data_file_name(path) ==
    IF \E i \in 1..Len(path) : path[i] \in ILLEGAL_CHARACTERS THEN "ValueError" ELSE "ok"

s_Device == <<"D", "e", "v", "i", "c", "e">>

SINOWEALTH_FW_VERSION_LEN == 4

SINOWEALTH_DEVICE_SECTION_PREFIX == <<"D", "r", "i", "v", "e", "r", "/", "s", "i", "n", "o", "w", "e", "a", "l", "t", "h", "/", "d", "e", "v", "i", "c", "e", "s", "/">>

SINOWEALTH_REQUIRED_KEYS == {"DeviceName", "LedType"}

SINOWEALTH_PERMITTED_KEYS ==
    SINOWEALTH_REQUIRED_KEYS \cup {"Buttons", "Profiles", "SensorType"}

\* str.startswith
StartsWith(s, prefix) ==
    Len(s) >= Len(prefix) /\ SubSeq(s, 1, Len(prefix)) = prefix

\* f"Driver/{driver}"
driver_section_of(driver) == <<"D", "r", "i", "v", "e", "r", "/">> \o driver

\* the body of the sinowealth loop without its asserts on the section's keys
check_sinowealth_section_unkeyed(sections, name) ==
    IF ~StartsWith(name, SINOWEALTH_DEVICE_SECTION_PREFIX) THEN "ok"
    ELSE IF Len(name) - Len(SINOWEALTH_DEVICE_SECTION_PREFIX) # SINOWEALTH_FW_VERSION_LEN
         THEN "AssertionError"
    ELSE "ok"

\* the body of the sinowealth loop for one section name
check_sinowealth_section(sections, name) ==
    IF ~StartsWith(name, SINOWEALTH_DEVICE_SECTION_PREFIX) THEN "ok"
    ELSE IF Len(name) - Len(SINOWEALTH_DEVICE_SECTION_PREFIX) # SINOWEALTH_FW_VERSION_LEN
         THEN "AssertionError"
    ELSE IF ~(\A key \in SINOWEALTH_REQUIRED_KEYS : Has(sections[name], key))
         THEN "AssertionError"
    ELSE check_keys(sections[name], SINOWEALTH_PERMITTED_KEYS)

\* the section names the file may hold: the sinowealth loop, or the
\* permitted_sections loop of the other drivers
check_sections(sections, driver) ==
    IF driver = s_sinowealth
    THEN IF \A name \in DOMAIN sections : check_sinowealth_section(sections, name) = "ok"
         THEN "ok" ELSE "AssertionError"
    ELSE IF \A name \in DOMAIN sections : name \in {s_Device, driver_section_of(driver)}
         THEN "ok" ELSE "AssertionError"

\* parse_data_file from "driver = data['Device']['Driver']" on
check_driver_sections(sections, driver) ==
    FirstError(<<
        check_sections(sections, driver),
        IF driver_section_of(driver) \in DOMAIN sections
        THEN check_section_driver(driver, sections[driver_section_of(driver)])
        ELSE "ok" >>)

parse_data_file(file) ==
    IF ~file.strict THEN "DuplicateError"
    ELSE IF s_Device \notin DOMAIN file.sections THEN "AssertionError"
    ELSE Only({IF v # "ok" THEN v
               ELSE check_driver_sections(file.sections, file.sections[s_Device]["Driver"]) :
                 v \in {check_section_device(file.sections[s_Device])}})

(***************************************************************************)
(* data/devices/data-parse-test.py, the copy of the validator that is run  *)
(* on the files named on its command line, as far as it differs            *)
(***************************************************************************)

DEVICES_DPI_RANGE_MAX_HI == 12000

\* the asserts on the parsed groups
devices_check_dpi_range(string, min, max, steps) ==
    IF ~steps.ok THEN "ValueError"
    ELSE IF ~(min >= 0 /\ min <= DPI_RANGE_MIN_HI) THEN "AssertionError"
    ELSE IF ~(max >= DPI_RANGE_MAX_LO /\ max <= DEVICES_DPI_RANGE_MAX_HI) THEN "AssertionError"
    ELSE IF ~(steps.num > 0 /\ steps.num <= DPI_RANGE_STEPS_HI * Pow(10, steps.frac))
         THEN "AssertionError"
    ELSE IF string # FormatInt(min) \o <<":">> \o FormatInt(max) \o <<"@">>
                       \o FormatSteps(steps.num, steps.frac)
         THEN "AssertionError"
    ELSE "ok"

devices_check_dpi_range_str(string) ==
    Only({IF g = <<>> THEN "AssertionError"
          ELSE Only({devices_check_dpi_range(string, min, max, steps) :
                        min \in {DigitsValue(g[1], 10)},
                        max \in {DigitsValue(g[2], 10)},
                        steps \in {ParseFloat(g[3])}}) :
            g \in {dpi_range_groups(string)}})

DEVICES_LED_TYPES == { <<"l", "o", "g", "o">>, <<"s", "i", "d", "e">>, <<"b", "a", "t", "t", "e", "r", "y">>, <<"d", "p", "i">>, <<"s", "w", "i", "t", "c", "h", "e", "s">> }

\* every type but an empty one is a permitted one
devices_check_ledtypes_str(string) ==
    Only({IF \A i \in 1..Len(types) : types[i] = <<>> \/ types[i] \in DEVICES_LED_TYPES
          THEN "ok" ELSE "AssertionError" :
            types \in {Split(string, ";")}})

DEVICES_REQUIRED_KEYS == {"Name", "Driver", "DeviceMatch"}

devices_check_section_device(section) ==
    FirstError(<<
        check_keys(section, DEVICES_REQUIRED_KEYS \cup {"LedTypes"}),
        IF \A r \in DEVICES_REQUIRED_KEYS : Has(section, r) THEN "ok" ELSE "AssertionError",
        IF Has(section, "LedTypes") THEN devices_check_ledtypes_str(section["LedTypes"])
        ELSE "ok",
        IF Has(section, "DeviceMatch") THEN check_match_str(section["DeviceMatch"])
        ELSE "KeyError" >>)

devices_check_section_hidpp10(section) ==
    FirstError(<<
        check_keys(section, HIDPP10_PERMITTED_KEYS),
        IF Has(section, "Profiles") THEN check_count(section["Profiles"])
        ELSE "ok",
        IF Has(section, "DeviceIndex")
        THEN check_device_index(section["DeviceIndex"]) ELSE "ok",
        IF Has(section, "DpiRange")
        THEN check_exclusive(devices_check_dpi_range_str(section["DpiRange"]), section,
                             "DpiList")
        ELSE "ok",
        IF Has(section, "DpiList")
        THEN check_exclusive(check_dpi_list_str(section["DpiList"]), section, "DpiRange")
        ELSE "ok",
        IF Has(section, "ProfileType") THEN check_profile_type_str(section["ProfileType"])
        ELSE "ok",
        IF Has(section, "Leds") THEN check_count(section["Leds"])
        ELSE "ok" >>)

DEVICES_HIDPP20_PERMITTED_KEYS == {"DeviceIndex", "Leds", "Quirk"}

devices_check_section_hidpp20(section) ==
    FirstError(<<
        check_keys(section, DEVICES_HIDPP20_PERMITTED_KEYS),
        IF Has(section, "DeviceIndex")
        THEN check_device_index(section["DeviceIndex"]) ELSE "ok" >>)

\* the last branch is "assert('Unsupported driver section ...')": the assert
\* of a string that is not empty, which never fails
devices_check_section_driver(driver, section) ==
    IF driver = s_hidpp10 THEN devices_check_section_hidpp10(section)
    ELSE IF driver = s_hidpp20 THEN devices_check_section_hidpp20(section)
    ELSE "ok"

\* parse_data_file from "driver = data['Device']['Driver']" on
devices_check_driver_sections(sections, driver) ==
    FirstError(<<
        IF \A name \in DOMAIN sections : name \in {s_Device, driver_section_of(driver)}
        THEN "ok" ELSE "AssertionError",
        IF driver_section_of(driver) \in DOMAIN sections
        THEN devices_check_section_driver(driver, sections[driver_section_of(driver)])
        ELSE "ok" >>)

devices_parse_data_file(file) ==
    IF ~file.strict THEN "DuplicateError"
    ELSE IF s_Device \notin DOMAIN file.sections THEN "AssertionError"
    ELSE Only({IF v # "ok" THEN v
               ELSE devices_check_driver_sections(file.sections,
                                                  file.sections[s_Device]["Driver"]) :
                 v \in {devices_check_section_device(file.sections[s_Device])}})

(***************************************************************************)
(* File runs: one call of parse_data_file on one file                      *)
(***************************************************************************)

MaxKeys == 2

Without(section, key) == [k \in DOMAIN section \ {key} |-> section[k]]

With(section, key, value) ==
    [k \in DOMAIN section \cup {key} |-> IF k = key THEN value ELSE section[k]]

\* the section holding the key-value pairs of a set with distinct keys
SectionOf(pairs) ==
    [k \in {p[1] : p \in pairs} |-> (CHOOSE p \in pairs : p[1] = k)[2]]

KeyValues ==
    { <<"DpiRange", <<"0", ":", "2", "0", "0", "0", "@", "1">>>>, <<"DpiRange", <<"0", ":", "2", "0", "0", "0", "@", "1", ".", "0">>>>,
      <<"DpiList", <<"1", "0", "0", ";", "2", "0", "0">>>>, <<"DpiList", <<"2", "0", "0", ";", "1", "0", "0">>>>,
      <<"DeviceIndex", <<"1">>>>, <<"DeviceIndex", <<"0">>>>,
      <<"DeviceIndex", <<"f", "f">>>>, <<"DeviceIndex", <<"1", "0", "0">>>>,
      <<"DeviceIndex", <<"z", "z">>>>, <<"DeviceIndex", <<"0", "x", "1", "f">>>>,
      <<"Profiles", <<"1">>>>, <<"Profiles", <<"1", "0">>>>,
      <<"ProfileType", <<"G", "9">>>>, <<"ProfileType", <<"G", "1">>>>,
      <<"Leds", <<"2">>>>, <<"Leds", <<"0">>>>,
      <<"Quirk", <<"R", "i", "v", "a", "l", "1", "0", "0">>>>, <<"Quirk", <<"B", "o", "g", "u", "s">>>>,
      <<"Quirks", <<"D", "O", "U", "B", "L", "E", "_", "D", "P", "I", ";", "S", "T", "R", "I", "X", "_", "P", "R", "O", "F", "I", "L", "E">>>>, <<"Quirks", <<"B", "O", "G", "U", "S">>>>,
      <<"LedModes", <<"O", "N", ";", "C", "Y", "C", "L", "E">>>>, <<"LedModes", <<"O", "F", "F">>>>,
      <<"Buttons", <<"5">>>>, <<"ReportRate", <<"1", "0", "0", "0">>>>, <<"Bogus", <<"1">>>>,
      <<"DeviceName", <<"X">>>>, <<"LedType", <<"R", "G", "B">>>> }

\* the sections of at most n keys over KeyValues
Sections(n) ==
    {SectionOf({ps[i] : i \in 1..Len(ps)}) :
        ps \in {q \in Strs(KeyValues, n) :
                  \A i, j \in 1..Len(q) : q[i][1] = q[j][1] => i = j}}

SmallSections ==
    { <<>>,
      SectionOf({<<"Bogus", <<"1">>>>}),
      SectionOf({<<"DeviceName", <<"X">>>>}),
      SectionOf({<<"DeviceName", <<"X">>>>, <<"LedType", <<"R", "G", "B">>>>}),
      SectionOf({<<"DeviceName", <<"X">>>>, <<"LedType", <<"R", "G", "B">>>>, <<"Buttons", <<"5">>>>}),
      SectionOf({<<"DeviceName", <<"X">>>>, <<"LedType", <<"R", "G", "B">>>>, <<"Bogus", <<"1">>>>}) }

s_roccat == <<"r", "o", "c", "c", "a", "t">>

KnownDrivers == {s_asus, s_hidpp10, s_hidpp20, s_steelseries}

Drivers == KnownDrivers \cup {s_sinowealth, s_roccat}

\* a well-formed Device section naming the driver
DeviceBase(driver) ==
    SectionOf({ <<"Name", <<"F", "o", "o">>>>, <<"Driver", driver>>,
                <<"DeviceMatch", <<"u", "s", "b", ":", "1", "2", "3", "4", ":", "5", "6", "7", "8">>>>, <<"DeviceType", <<"m", "o", "u", "s", "e">>>> })

DeviceSections(driver) ==
    {DeviceBase(driver)}
    \cup {Without(DeviceBase(driver), k) : k \in DEVICE_REQUIRED_KEYS}
    \cup { With(DeviceBase(driver), "LedTypes", <<"l", "o", "g", "o">>),
           With(DeviceBase(driver), "Bogus", <<"1">>),
           With(DeviceBase(driver), "DeviceType", <<"j", "o", "y", "s", "t", "i", "c", "k">>),
           With(DeviceBase(driver), "DeviceMatch", <<"u", "s", "b", ":", "1", "2", "3", ":", "5", "6", "7", "8">>),
           With(DeviceBase(driver), "DeviceMatch", <<"u", "s", "b", ":", "1", "2", "3", "4", ":", "5", "6", "7", "8", ";", "b", "l", "u", "e", "t", "o", "o", "t", "h", ":", "1", "2", "3", "4", ":", "5", "6", "7", "8", ";">>) }

ExtraSectionNames ==
    { <<"E", "x", "t", "r", "a">>, <<"D", "r", "i", "v", "e", "r", "/", "s", "i", "n", "o", "w", "e", "a", "l", "t", "h", "/", "d", "e", "v", "i", "c", "e", "s", "/", "0", "0", "0", "1">>, <<"D", "r", "i", "v", "e", "r", "/", "s", "i", "n", "o", "w", "e", "a", "l", "t", "h", "/", "d", "e", "v", "i", "c", "e", "s", "/", "0", "0", "1">> }
    \cup {driver_section_of(d) : d \in Drivers}

s_path == <<"d", "a", "t", "a", "/", "a", ".", "d", "e", "v", "i", "c", "e">>

FileOf(sections, strict) == [path |-> s_path, strict |-> strict, sections |-> sections]

\* a function of one section
One(name, section) == [n \in {name} |-> section]

\* two functions of sections put together, the first one winning
Both(f, g) == [n \in DOMAIN f \cup DOMAIN g |-> IF n \in DOMAIN f THEN f[n] ELSE g[n]]

Files ==
    {FileOf(One(s_Device, dev), strict) :
        dev \in UNION {DeviceSections(d) : d \in Drivers}, strict \in BOOLEAN}
    \cup {FileOf(Both(One(s_Device, DeviceBase(d)), One(driver_section_of(d), sec)), TRUE) :
            d \in Drivers, sec \in Sections(MaxKeys)}
    \cup {FileOf(Both(One(s_Device, dev), One(name, sec)), TRUE) :
            dev \in UNION {DeviceSections(d) : d \in Drivers},
            name \in ExtraSectionNames, sec \in SmallSections}
    \cup {FileOf(Both(Both(One(s_Device, DeviceBase(d)), One(driver_section_of(d), <<>>)),
                      One(name, sec)), TRUE) :
            d \in Drivers, name \in ExtraSectionNames, sec \in SmallSections}
    \cup {FileOf(sections, TRUE) :
            sections \in {<<>>, One(driver_section_of(s_hidpp20), <<>>)}}

\* the files for the copy in data/devices, whose Device section has no DeviceType
DevicesBase(driver) == Without(DeviceBase(driver), "DeviceType")

DevicesFiles ==
    {FileOf(One(s_Device, dev), strict) :
        dev \in UNION {{Without(dev, "DeviceType") : dev \in DeviceSections(d)}
                         \cup {DeviceBase(d),
                               With(DevicesBase(d), "LedTypes", <<"l", "o", "g", "o", ";">>),
                               With(DevicesBase(d), "LedTypes", <<"t", "o", "p">>)} :
                       d \in Drivers},
        strict \in BOOLEAN}
    \cup {FileOf(Both(One(s_Device, DevicesBase(d)), One(driver_section_of(d), sec)), TRUE) :
            d \in Drivers, sec \in Sections(MaxKeys)}
    \cup {FileOf(Both(One(s_Device, DevicesBase(d)), One(name, sec)), TRUE) :
            d \in Drivers, name \in ExtraSectionNames, sec \in SmallSections}

ParseInit ==
    /\ \/ fn = "parse_data_file" /\ arg \in Files
       \/ fn = "devices_parse_data_file" /\ arg \in DevicesFiles
    /\ ret = "none"
    /\ files = <<>> /\ ScanStart

Call_parse_data_file ==
    /\ fn = "parse_data_file" /\ ret = "none"
    /\ ret' = parse_data_file(arg)
    /\ UNCHANGED <<fn, arg, scan, gobj>>

Call_devices_parse_data_file ==
    /\ fn = "devices_parse_data_file" /\ ret = "none"
    /\ ret' = devices_parse_data_file(arg)
    /\ UNCHANGED <<fn, arg, scan, gobj>>

ParseNext == Call_parse_data_file \/ Call_devices_parse_data_file

SpecParse == ParseInit /\ [][ParseNext]_vars

(***************************************************************************)
(* Properties of parse_data_file, under SpecParse                          *)
(***************************************************************************)

Called == fn = "parse_data_file" /\ ret # "none"

\* the file was read and has a Device section that names a driver
NamesDriver(file) ==
    /\ file.strict
    /\ s_Device \in DOMAIN file.sections
    /\ "Driver" \in DOMAIN file.sections[s_Device]

DriverOf(file) == file.sections[s_Device]["Driver"]

\* the keys a section of the file may hold: those of the Device section, of
\* the section of the file's driver and of a sinowealth device section; a
\* section of no schema may hold none
PermittedKeys(file, name) ==
    IF name = s_Device THEN DEVICE_REQUIRED_KEYS \cup {"LedTypes"}
    ELSE IF name = driver_section_of(DriverOf(file)) /\ DriverOf(file) = s_asus
         THEN ASUS_PERMITTED_KEYS
    ELSE IF name = driver_section_of(DriverOf(file)) /\ DriverOf(file) = s_hidpp10
         THEN HIDPP10_PERMITTED_KEYS
    ELSE IF name = driver_section_of(DriverOf(file)) /\ DriverOf(file) = s_hidpp20
         THEN HIDPP20_PERMITTED_KEYS
    ELSE IF name = driver_section_of(DriverOf(file)) /\ DriverOf(file) = s_steelseries
         THEN STEELSERIES_PERMITTED_KEYS
    ELSE IF DriverOf(file) = s_sinowealth
            /\ StartsWith(name, SINOWEALTH_DEVICE_SECTION_PREFIX)
         THEN SINOWEALTH_PERMITTED_KEYS
    ELSE {}

\* C8: in a file that parse_data_file accepts, no key of any section (the
\* Device section, the Driver/<driver> section, every section of a sinowealth
\* file) lies outside that section's permitted key set: a single unknown key
\* in any section makes validation fail.
C8_NoUnknownKeyAccepted ==
    (Called /\ ret = "ok") =>
        \A name \in DOMAIN arg.sections :
            DOMAIN arg.sections[name] \subseteq PermittedKeys(arg, name)

\* the Driver/<driver> section of a file of driver hidpp10 or steelseries
ExclusiveSection(file) ==
    IF /\ NamesDriver(file)
       /\ DriverOf(file) \in {s_hidpp10, s_steelseries}
       /\ driver_section_of(DriverOf(file)) \in DOMAIN file.sections
    THEN file.sections[driver_section_of(DriverOf(file))]
    ELSE <<>>

\* the file with a key of its Driver/<driver> section removed
WithoutDriverKey(file, key) ==
    [file EXCEPT !.sections[driver_section_of(DriverOf(file))] = Without(@, key)]

\* C9: in a Driver/hidpp10 or Driver/steelseries section DpiRange and DpiList
\* are mutually exclusive: a section with both fails validation whatever their
\* values; a section with exactly one of them, well-formed, is not rejected
\* for it (the file is accepted exactly if it is accepted without that key).
C9_DpiRangeDpiListExclusive ==
    Called =>
        LET section == ExclusiveSection(arg)
        IN /\ {"DpiRange", "DpiList"} \subseteq DOMAIN section => ret # "ok"
           /\ \A key \in {"DpiRange", "DpiList"} :
                 ( /\ DOMAIN section \cap {"DpiRange", "DpiList"} = {key}
                   /\ section[key] \in { <<"0", ":", "2", "0", "0", "0", "@", "1">>, <<"1", "0", "0", ";", "2", "0", "0">> } )
                 => ((ret = "ok") <=> (parse_data_file(WithoutDriverKey(arg, key)) = "ok"))

\* a steelseries section with both keys, both well-formed, was rejected
C9_Witness ==
    /\ Called /\ ret = "AssertionError"
    /\ NamesDriver(arg) /\ DriverOf(arg) = s_steelseries
    /\ ExclusiveSection(arg) =
         SectionOf({ <<"DpiRange", <<"0", ":", "2", "0", "0", "0", "@", "1">>>>, <<"DpiList", <<"1", "0", "0", ";", "2", "0", "0">>>> })

\* the file names a driver that is none of asus, hidpp10, hidpp20, steelseries
NamesOtherDriver(file) == NamesDriver(file) /\ DriverOf(file) \notin KnownDrivers

\* C10: in either copy of the validator, a file whose Device section names a
\* driver that is not one of asus, hidpp10, hidpp20, steelseries fails
\* validation, whether or not the file has a Driver/<driver> section for it.
C10_OtherDriverFails ==
    ( /\ fn \in {"parse_data_file", "devices_parse_data_file"} /\ ret # "none"
      /\ NamesOtherDriver(arg) )
    => ret # "ok"

(***************************************************************************)
(* Directories.  A file of a directory is its name and what configparser   *)
(* reads from it: its sections, and whether the text is free of duplicate  *)
(* sections and keys (strict).                                             *)
(***************************************************************************)

EndsWith(s, suffix) ==
    Len(s) >= Len(suffix) /\ SubSeq(s, Len(s) - Len(suffix) + 1, Len(s)) = suffix

\* pathlib.Path(directory).glob("*.device")
glob(listing) == SelectSeq(listing, LAMBDA f : EndsWith(f.name, <<".", "d", "e", "v", "i", "c", "e">>))

\* str(path) of a path that glob yields
path_str(directory, name) == directory \o <<"/">> \o name

\* os.path.basename of such a path
basename(path) ==
    Only({SubSeq(path, Max({0} \cup P) + 1, Len(path)) :
            P \in {{i \in 1..Len(path) : path[i] = "/"}}})

\* the file as parse_data_file opens it
Opened(directory, file) ==
    [path |-> path_str(directory, file.name), strict |-> file.strict,
     sections |-> file.sections]

MaxFiles == 3

DeviceName(i) == <<"f">> \o FormatInt(i) \o <<".", "d", "e", "v", "i", "c", "e">>

BracketName(i) == <<"f">> \o FormatInt(i) \o <<"(", "1", ")", ".", "d", "e", "v", "i", "c", "e">>

OtherName(i) == <<"f">> \o FormatInt(i) \o <<".", "t", "x", "t">>

\* the name of the i-th file of a listing
NameOf(kind, i) ==
    IF kind = "device" THEN DeviceName(i)
    ELSE IF kind = "bracket" THEN BracketName(i)
    ELSE OtherName(i)

\* the listings of at most MaxFiles files: each file is a *.device file of
\* one of the kinds of name with one of the contents, or is no *.device file
Listings(kinds, contents) ==
    UNION {{[i \in 1..n |-> [name |-> NameOf(c[i][1], i), strict |-> c[i][2].strict,
                             sections |-> c[i][2].sections]] :
              c \in [1..n -> (kinds \X contents)
                             \cup {<<"other", [strict |-> TRUE, sections |-> <<>>]>>}]} :
           n \in 0..MaxFiles}

(***************************************************************************)
(* test/data-parse-test.py: main                                           *)
(***************************************************************************)

\* the try block without its first statement
main_try_unnamed(path, file) == parse_data_file(file)

\* the try block: "ok", or the exception that the except clause catches
main_try(path, file) ==
    Only({IF v # "ok" THEN v ELSE parse_data_file(file) :
            v \in {validate_data_file_name(path)}})

\* the calls of a try block whose two statements are in the other order
main_calls_swapped(path) ==
    << <<"parse_data_file", path>>, <<"validate_data_file_name", path>> >>

\* the calls that the try block makes of the two functions
main_calls(path) ==
    IF validate_data_file_name(path) # "ok"
    THEN << <<"validate_data_file_name", path>> >>
    ELSE << <<"validate_data_file_name", path>>, <<"parse_data_file", path>> >>

\* one turn of the loop
main_file ==
    /\ fn = "data-parse-test" /\ ret = "none"
    /\ scanned < Len(glob(files))
    /\ \E file \in {Opened(arg, glob(files)[scanned + 1])} :
         \E outcome \in {main_try(file.path, file)} :
            /\ is_error' = (is_error \/ outcome # "ok")
            /\ printed' = IF outcome # "ok" THEN Append(printed, <<file.path, outcome>>)
                          ELSE printed
            /\ calls' = calls \o main_calls(file.path)
    /\ scanned' = scanned + 1
    /\ UNCHANGED <<gobj, fn, arg, ret, files, device_matches, duplicates, receiver_found,
                   exit_code>>

\* after the loop: "if is_error: raise SystemExit(1)"
main_exit ==
    /\ fn = "data-parse-test" /\ ret = "none"
    /\ scanned = Len(glob(files))
    /\ ret' = IF is_error THEN "SystemExit" ELSE "ok"
    /\ exit_code' = IF is_error THEN 1 ELSE 0
    /\ UNCHANGED <<gobj, fn, arg, files, scanned, calls, printed, is_error, device_matches,
                   duplicates, receiver_found>>

Directories == { <<"d", "a", "t", "a">>, <<"d", "a", "t", "a", "(", "1", ")">> }

MainContents ==
    { [strict |-> TRUE,
       sections |-> Both(One(s_Device, DeviceBase(s_hidpp20)),
                         One(driver_section_of(s_hidpp20),
                             SectionOf({<<"DeviceIndex", <<"1">>>>})))],
      [strict |-> TRUE,
       sections |-> One(s_Device, With(DeviceBase(s_hidpp20), "Bogus", <<"1">>))],
      [strict |-> FALSE, sections |-> One(s_Device, DeviceBase(s_hidpp20))] }

MainInit ==
    /\ fn = "data-parse-test" /\ arg \in Directories /\ ret = "none"
    /\ files \in Listings({"device", "bracket"}, MainContents)
    /\ ScanStart

MainNext == main_file \/ main_exit

SpecMain == MainInit /\ [][MainNext]_vars

\* the file fails: one of the two functions raises on it
FileFails(directory, f) ==
    \/ validate_data_file_name(path_str(directory, f.name)) # "ok"
    \/ parse_data_file(Opened(directory, f)) # "ok"

\* the *.device files of the listing, by their names
DeviceFiles(listing) ==
    SelectSeq(listing, LAMBDA f : Len(f.name) >= 7
                                   /\ SubSeq(f.name, Len(f.name) - 6, Len(f.name)) = <<".", "d", "e", "v", "i", "c", "e">>)

\* C1: main of test/data-parse-test.py validates every *.device file of the
\* directory whether or not earlier files failed: the failure flag is set by
\* a failing file and never cleared, each file is taken in its turn, and the
\* process exits 1 if and only if at least one file raised during
\* validate_data_file_name or parse_data_file, and exits 0 otherwise.
C1_ExitOneIffSomeFileFailed ==
    fn = "data-parse-test" =>
        LET fs == DeviceFiles(files)
        IN /\ is_error = (\E i \in 1..scanned : FileFails(arg, fs[i]))
           /\ \A i \in 1..scanned :
                 \E k \in 1..Len(calls) :
                    calls[k] = <<"validate_data_file_name", path_str(arg, fs[i].name)>>
           /\ ret # "none" =>
                 /\ scanned = Len(fs)
                 /\ exit_code = IF \E i \in 1..Len(fs) : FileFails(arg, fs[i]) THEN 1 ELSE 0

\* the first file failed, the second one was parsed all the same and passed,
\* and the process exited 1
C1_Witness ==
    /\ fn = "data-parse-test" /\ ret = "SystemExit" /\ exit_code = 1
    /\ Len(DeviceFiles(files)) >= 2
    /\ FileFails(arg, DeviceFiles(files)[1])
    /\ ~FileFails(arg, DeviceFiles(files)[2])
    /\ \E k \in 1..Len(calls) :
          calls[k] = <<"parse_data_file", path_str(arg, DeviceFiles(files)[2].name)>>

(***************************************************************************)
(* test/duplicate-check.py                                                 *)
(***************************************************************************)

\* data["Device"]["DeviceMatch"].split(";"), or the exception raised on the way
duplicate_check_parse_data_file(file) ==
    IF ~file.strict THEN [ok |-> FALSE, exc |-> "DuplicateError", matches |-> <<>>]
    ELSE IF s_Device \notin DOMAIN file.sections
         THEN [ok |-> FALSE, exc |-> "KeyError", matches |-> <<>>]
    ELSE IF "DeviceMatch" \notin DOMAIN file.sections[s_Device]
         THEN [ok |-> FALSE, exc |-> "KeyError", matches |-> <<>>]
    ELSE [ok |-> TRUE, exc |-> "ok",
          matches |-> Split(file.sections[s_Device]["DeviceMatch"], ";")]

\* an index that keeps the file it has for m
keep_first(index, m, fname) ==
    IF m \in DOMAIN index THEN index ELSE With(index, m, fname)

\* "device_matches[m] = fname"
set_match(index, m, fname) == With(index, m, fname)

\* "for m in matches": the index, the flag and the lines printed after it
scan_matches(index, flag, lines, matches, fname) ==
    LET st[k \in 0..Len(matches)] ==
            IF k = 0 THEN [index |-> index, flag |-> flag, lines |-> lines]
            ELSE Only({[index |-> set_match(p.index, matches[k], fname),
                        flag |-> (p.flag \/ matches[k] \in DOMAIN p.index),
                        lines |-> IF matches[k] \in DOMAIN p.index
                                  THEN Append(p.lines,
                                              <<matches[k], fname, p.index[matches[k]]>>)
                                  ELSE p.lines] :
                         p \in {st[k - 1]}})
    IN st[Len(matches)]

\* one turn of the loop; an exception of parse_data_file ends the process
duplicate_check_file ==
    /\ fn = "duplicate-check" /\ ret = "none"
    /\ scanned < Len(glob(files))
    /\ \E file \in {Opened(arg, glob(files)[scanned + 1])} :
         \E r \in {duplicate_check_parse_data_file(file)} :
            IF r.ok
            THEN \E st \in {scan_matches(device_matches, duplicates, printed,
                                         r.matches, basename(file.path))} :
                    /\ device_matches' = st.index
                    /\ duplicates' = st.flag
                    /\ printed' = st.lines
                    /\ scanned' = scanned + 1
                    /\ UNCHANGED <<ret, exit_code>>
            ELSE /\ ret' = r.exc
                 /\ exit_code' = 1
                 /\ UNCHANGED <<device_matches, duplicates, printed, scanned>>
    /\ UNCHANGED <<gobj, fn, arg, files, calls, is_error, receiver_found>>

\* after the loop: "if duplicates: sys.exit(1)"
duplicate_check_exit ==
    /\ fn = "duplicate-check" /\ ret = "none"
    /\ scanned = Len(glob(files))
    /\ ret' = IF duplicates THEN "SystemExit" ELSE "ok"
    /\ exit_code' = IF duplicates THEN 1 ELSE 0
    /\ UNCHANGED <<gobj, fn, arg, files, scanned, calls, printed, is_error, device_matches,
                   duplicates, receiver_found>>

\* a file whose Device section holds the DeviceMatch value
Matching(value) ==
    [strict |-> TRUE, sections |-> One(s_Device, SectionOf({<<"DeviceMatch", value>>}))]

ScanContents ==
    { Matching(<<"u", "s", "b", ":", "0", "4", "6", "d", ":", "1", "2", "3", "4">>),
      Matching(<<"u", "s", "b", ":", "0", "4", "6", "d", ":", "1", "2", "3", "4", ";">>),
      Matching(<<"u", "s", "b", ":", "0", "4", "6", "d", ":", "c", "5", "2", "b", ";">>),
      Matching(<<"u", "s", "b", ":", "0", "4", "6", "d", ":", "c", "5", "4", "8", ";", "u", "s", "b", ":", "0", "4", "6", "d", ":", "1", "2", "3", "4">>),
      Matching(<<"u", "s", "b", ":", "0", "4", "6", "d", ":", "C", "5", "2", "B", ";", "u", "s", "b", ":", "0", "4", "6", "d", ":", "C", "5", "2", "B">>),
      [strict |-> TRUE, sections |-> One(s_Device, SectionOf({<<"Name", <<"F", "o", "o">>>>}))],
      [strict |-> TRUE, sections |-> <<>>],
      [strict |-> FALSE,
       sections |-> One(s_Device, SectionOf({<<"DeviceMatch", <<"u", "s", "b", ":", "0", "4", "6", "d", ":", "c", "5", "2", "b">>>>}))] }

DuplicateInit ==
    /\ fn = "duplicate-check" /\ arg = <<"d", "a", "t", "a">> /\ ret = "none"
    /\ files \in Listings({"device"}, ScanContents)
    /\ ScanStart

DuplicateNext == duplicate_check_file \/ duplicate_check_exit

SpecDuplicate == DuplicateInit /\ [][DuplicateNext]_vars

\* the file has a DeviceMatch value that configparser can read
Readable(f) ==
    /\ f.strict
    /\ s_Device \in DOMAIN f.sections
    /\ "DeviceMatch" \in DOMAIN f.sections[s_Device]

\* the parts of the DeviceMatch value of a file between its semicolons
Segments(f) ==
    IF Readable(f) THEN Split(f.sections[s_Device]["DeviceMatch"], ";") ELSE <<>>

Declares(f, m) == \E k \in 1..Len(Segments(f)) : Segments(f)[k] = m

\* the name of the first and of the last of the files fs[1..n] that declare m
FirstDeclarer(fs, n, m) == fs[Min({i \in 1..n : Declares(fs[i], m)})].name

LastDeclarer(fs, n, m) == fs[Max({i \in 1..n : Declares(fs[i], m)})].name

\* the duplicate lines due for the files fs[1..n]: one for each part that an
\* earlier part of the same file, or else an earlier file, declares, naming
\* the file it is in and the latest declarer before it
DuplicateLines(fs, n) ==
    LET inFile(i, k) == \E j \in 1..(k - 1) : Segments(fs[i])[j] = Segments(fs[i])[k]
        before(i, k) == {j \in 1..(i - 1) : Declares(fs[j], Segments(fs[i])[k])}
        ofFile(i) ==
            LET l[k \in 0..Len(Segments(fs[i]))] ==
                    IF k = 0 THEN <<>>
                    ELSE IF inFile(i, k)
                         THEN Append(l[k - 1], <<Segments(fs[i])[k], fs[i].name, fs[i].name>>)
                    ELSE IF before(i, k) # {}
                         THEN Append(l[k - 1], <<Segments(fs[i])[k], fs[i].name,
                                                 fs[Max(before(i, k))].name>>)
                    ELSE l[k - 1]
            IN l[Len(Segments(fs[i]))]
        all[i \in 0..n] == IF i = 0 THEN <<>> ELSE all[i - 1] \o ofFile(i)
    IN all[n]

\* C2 as claimed: the index of the duplicate scan maps each DeviceMatch entry
\* to the first file that declared it, every later sighting is reported
\* against that first file, and a duplicate does not stop the scan.
C2_IndexKeepsFirstFile ==
    fn = "duplicate-check" =>
        LET fs == DeviceFiles(files)
        IN /\ \A m \in DOMAIN device_matches :
                 device_matches[m] = FirstDeclarer(fs, scanned, m)
           /\ \A k \in 1..Len(printed) :
                 printed[k][3] = FirstDeclarer(fs, scanned, printed[k][1])
           /\ ret # "none" => (scanned = Len(fs) \/ ~Readable(fs[scanned + 1]))

\* C2 as amended: the index maps each entry of the files scanned so far to
\* the latest of them that declared it, every sighting of an entry already in
\* the index is reported against the latest declarer before it, and a
\* duplicate does not stop the scan (only a file without a readable
\* DeviceMatch does).
C2_IndexKeepsLatestFile ==
    fn = "duplicate-check" =>
        LET fs == DeviceFiles(files)
        IN /\ DOMAIN device_matches =
                 UNION {{Segments(fs[i])[k] : k \in 1..Len(Segments(fs[i]))} :
                          i \in 1..scanned}
           /\ \A m \in DOMAIN device_matches :
                 device_matches[m] = LastDeclarer(fs, scanned, m)
           /\ printed = DuplicateLines(fs, scanned)
           /\ ret # "none" => (scanned = Len(fs) \/ ~Readable(fs[scanned + 1]))

\* three files declared usb:046d:1234: the third was reported against the
\* second and is the one in the index
C2_Witness ==
    /\ fn = "duplicate-check" /\ ret = "SystemExit"
    /\ Len(DeviceFiles(files)) = 3
    /\ \A i \in 1..3 : Declares(DeviceFiles(files)[i], <<"u", "s", "b", ":", "0", "4", "6", "d", ":", "1", "2", "3", "4">>)
    /\ device_matches[<<"u", "s", "b", ":", "0", "4", "6", "d", ":", "1", "2", "3", "4">>] = DeviceFiles(files)[3].name
    /\ \E k \in 1..Len(printed) :
          printed[k] = <<<<"u", "s", "b", ":", "0", "4", "6", "d", ":", "1", "2", "3", "4">>, DeviceFiles(files)[3].name,
                         DeviceFiles(files)[2].name>>

\* the number of times the files declare m
Declarations(fs, m) ==
    Cardinality({p \in (1..Len(fs)) \X (1..MaxEntries + 1) :
                   p[2] <= Len(Segments(fs[p[1]])) /\ Segments(fs[p[1]])[p[2]] = m})

\* the bus:vid:pid entries of a file: the non-empty parts of its value
Entries(f) == {Segments(f)[k] : k \in 1..Len(Segments(f))} \ {<<>>}

\* C3: when every file has a readable DeviceMatch, duplicate-check exits 1 if
\* and only if some bus:vid:pid entry is declared more than once across the
\* files, a trailing ";" of a value notwithstanding, and exits 0 otherwise;
\* two files that each declare only the same single entry give exactly one
\* duplicate line.
C3_ExitOneIffEntryDeclaredTwice ==
    (fn = "duplicate-check" /\ ret \in {"ok", "SystemExit"}) =>
        LET fs == DeviceFiles(files)
            all == UNION {Entries(fs[i]) : i \in 1..Len(fs)}
        IN /\ exit_code = IF \E m \in all : Declarations(fs, m) >= 2 THEN 1 ELSE 0
           /\ ( /\ Len(fs) = 2
                /\ Cardinality(all) = 1
                /\ \A m \in all : Declarations(fs, m) = 2 /\ Declares(fs[1], m) /\ Declares(fs[2], m) )
              => Len(printed) = 1

(***************************************************************************)
(* test/receiver-check.py                                                  *)
(***************************************************************************)

\* 0xC50C, 0xC517, 0xC512, 0xC513, 0xC51B, 0xC52B, 0xC52F, 0xC532, 0xC534,
\* 0xC539, 0xC53F, 0xC53A, 0xC545, 0xC547, 0xC548
logitech_receivers ==
    << 50444, 50455, 50450, 50451, 50459, 50475, 50479, 50482, 50484,
       50489, 50495, 50490, 50501, 50503, 50504 >>

\* [f"usb:046d:{r:04x}" for r in logitech_receivers]
RECEIVERS ==
    [i \in 1..Len(logitech_receivers) |-> <<"u", "s", "b", ":", "0", "4", "6", "d", ":">> \o FormatHex04(logitech_receivers[i])]

\* data["Device"]["DeviceMatch"].split(";"), or the exception raised on the way
receiver_check_parse_data_file(file) ==
    IF ~file.strict THEN [ok |-> FALSE, exc |-> "DuplicateError", matches |-> <<>>]
    ELSE IF s_Device \notin DOMAIN file.sections
         THEN [ok |-> FALSE, exc |-> "KeyError", matches |-> <<>>]
    ELSE IF "DeviceMatch" \notin DOMAIN file.sections[s_Device]
         THEN [ok |-> FALSE, exc |-> "KeyError", matches |-> <<>>]
    ELSE [ok |-> TRUE, exc |-> "ok",
          matches |-> Split(file.sections[s_Device]["DeviceMatch"], ";")]

\* "for m in matches": the flag and the lines printed after it
scan_receivers(flag, lines, matches, fname) ==
    LET st[k \in 0..Len(matches)] ==
            IF k = 0 THEN [flag |-> flag, lines |-> lines]
            ELSE Only({IF \E i \in 1..Len(RECEIVERS) : RECEIVERS[i] = matches[k]
                       THEN [flag |-> TRUE, lines |-> Append(p.lines, <<matches[k], fname>>)]
                       ELSE p :
                         p \in {st[k - 1]}})
    IN st[Len(matches)]

\* one turn of the loop; an exception of parse_data_file ends the process
receiver_check_file ==
    /\ fn = "receiver-check" /\ ret = "none"
    /\ scanned < Len(glob(files))
    /\ \E file \in {Opened(arg, glob(files)[scanned + 1])} :
         \E r \in {receiver_check_parse_data_file(file)} :
            IF r.ok
            THEN \E st \in {scan_receivers(receiver_found, printed, r.matches,
                                           basename(file.path))} :
                    /\ receiver_found' = st.flag
                    /\ printed' = st.lines
                    /\ scanned' = scanned + 1
                    /\ UNCHANGED <<ret, exit_code>>
            ELSE /\ ret' = r.exc
                 /\ exit_code' = 1
                 /\ UNCHANGED <<receiver_found, printed, scanned>>
    /\ UNCHANGED <<gobj, fn, arg, files, calls, is_error, device_matches, duplicates>>

\* after the loop: "if receiver_found: sys.exit(1)"
receiver_check_exit ==
    /\ fn = "receiver-check" /\ ret = "none"
    /\ scanned = Len(glob(files))
    /\ ret' = IF receiver_found THEN "SystemExit" ELSE "ok"
    /\ exit_code' = IF receiver_found THEN 1 ELSE 0
    /\ UNCHANGED <<gobj, fn, arg, files, scanned, calls, printed, is_error, device_matches,
                   duplicates, receiver_found>>

ReceiverInit ==
    /\ fn = "receiver-check" /\ arg = <<"d", "a", "t", "a">> /\ ret = "none"
    /\ files \in Listings({"device"}, ScanContents)
    /\ ScanStart

ReceiverNext == receiver_check_file \/ receiver_check_exit

SpecReceiver == ReceiverInit /\ [][ReceiverNext]_vars

\* usb:046d:<id> for the ids of the denylist, as 4-digit lowercase hex
DeniedEntries ==
    { <<"u", "s", "b", ":", "0", "4", "6", "d", ":", "c", "5", "0", "c">>, <<"u", "s", "b", ":", "0", "4", "6", "d", ":", "c", "5", "1", "7">>, <<"u", "s", "b", ":", "0", "4", "6", "d", ":", "c", "5", "1", "2">>, <<"u", "s", "b", ":", "0", "4", "6", "d", ":", "c", "5", "1", "3">>,
      <<"u", "s", "b", ":", "0", "4", "6", "d", ":", "c", "5", "1", "b">>, <<"u", "s", "b", ":", "0", "4", "6", "d", ":", "c", "5", "2", "b">>, <<"u", "s", "b", ":", "0", "4", "6", "d", ":", "c", "5", "2", "f">>, <<"u", "s", "b", ":", "0", "4", "6", "d", ":", "c", "5", "3", "2">>,
      <<"u", "s", "b", ":", "0", "4", "6", "d", ":", "c", "5", "3", "4">>, <<"u", "s", "b", ":", "0", "4", "6", "d", ":", "c", "5", "3", "9">>, <<"u", "s", "b", ":", "0", "4", "6", "d", ":", "c", "5", "3", "f">>, <<"u", "s", "b", ":", "0", "4", "6", "d", ":", "c", "5", "3", "a">>,
      <<"u", "s", "b", ":", "0", "4", "6", "d", ":", "c", "5", "4", "5">>, <<"u", "s", "b", ":", "0", "4", "6", "d", ":", "c", "5", "4", "7">>, <<"u", "s", "b", ":", "0", "4", "6", "d", ":", "c", "5", "4", "8">> }

\* the receiver lines due for the files fs[1..n]
ReceiverLines(fs, n) ==
    LET ofFile(i) ==
            LET l[k \in 0..Len(Segments(fs[i]))] ==
                    IF k = 0 THEN <<>>
                    ELSE IF Segments(fs[i])[k] \in DeniedEntries
                         THEN Append(l[k - 1], <<Segments(fs[i])[k], fs[i].name>>)
                    ELSE l[k - 1]
            IN l[Len(Segments(fs[i]))]
        all[i \in 0..n] == IF i = 0 THEN <<>> ELSE all[i - 1] \o ofFile(i)
    IN all[n]

\* C4: when receiver-check.py has ended, every entry of the DeviceMatch value
\* of every file that equals usb:046d:<id> for an id of the denylist has been
\* reported, the scan having gone over all the files, and the process has
\* exited 1 if and only if at least one such entry is in any file.
C4_DeniedEntriesReported ==
    (fn = "receiver-check" /\ ret # "none") =>
        LET fs == DeviceFiles(files)
        IN /\ scanned = Len(fs)
           /\ printed = ReceiverLines(fs, Len(fs))
           /\ exit_code = IF ReceiverLines(fs, Len(fs)) # <<>> THEN 1 ELSE 0

(***************************************************************************)
(* Properties of the sections of a file, under SpecParse                   *)
(***************************************************************************)

\* a section name of the form Driver/sinowealth/devices/<suffix>
IsSinowealthDeviceSection(name) ==
    /\ Len(name) >= 26
    /\ SubSeq(name, 1, 26) = <<"D", "r", "i", "v", "e", "r", "/", "s", "i", "n", "o", "w", "e", "a", "l", "t", "h", "/", "d", "e", "v", "i", "c", "e", "s", "/">>

\* C11: a file that parse_data_file accepts has no section outside Device
\* and Driver/<driver>, but for the sections of a sinowealth file named
\* Driver/sinowealth/devices/<4-char-version>: any other section name makes
\* validation fail.
C11_NoSectionOutsidePermitted ==
    (Called /\ ret = "ok") =>
        \A name \in DOMAIN arg.sections :
            \/ name = s_Device
            \/ name = <<"D", "r", "i", "v", "e", "r", "/">> \o DriverOf(arg)
            \/ /\ DriverOf(arg) = <<"s", "i", "n", "o", "w", "e", "a", "l", "t", "h">>
               /\ IsSinowealthDeviceSection(name)
               /\ Len(name) = 26 + 4

\* C12: a sinowealth file is accepted only if every one of its sections
\* named Driver/sinowealth/devices/<suffix> has a suffix of exactly 4
\* characters, holds both DeviceName and LedType, and holds no key other than
\* DeviceName, LedType, Buttons, Profiles, SensorType.
C12_SinowealthDeviceSections ==
    (Called /\ ret = "ok" /\ DriverOf(arg) = <<"s", "i", "n", "o", "w", "e", "a", "l", "t", "h">>) =>
        \A name \in DOMAIN arg.sections :
            IsSinowealthDeviceSection(name) =>
                /\ Len(name) = 26 + 4
                /\ {"DeviceName", "LedType"} \subseteq DOMAIN arg.sections[name]
                /\ DOMAIN arg.sections[name] \subseteq
                      {"DeviceName", "LedType", "Buttons", "Profiles", "SensorType"}

\* a sinowealth file with a device section of a 4-character suffix holding
\* DeviceName, LedType and Buttons was accepted
C12_Witness ==
    /\ Called /\ ret = "ok" /\ DriverOf(arg) = <<"s", "i", "n", "o", "w", "e", "a", "l", "t", "h">>
    /\ \E name \in DOMAIN arg.sections :
          /\ IsSinowealthDeviceSection(name)
          /\ DOMAIN arg.sections[name] = {"DeviceName", "LedType", "Buttons"}

\* the call was of either copy of parse_data_file, on a file that configparser
\* reads and that has a Device section and no other
DeviceOnly ==
    /\ fn \in {"parse_data_file", "devices_parse_data_file"} /\ ret # "none"
    /\ arg.strict
    /\ DOMAIN arg.sections = {s_Device}

DeviceTypes == { <<"m", "o", "u", "s", "e">>, <<"k", "e", "y", "b", "o", "a", "r", "d">>, <<"o", "t", "h", "e", "r">> }

Renamed(file, driver) ==
    [file EXCEPT !.sections[s_Device] = With(@, "Driver", driver)]

IndexedSection(file) ==
    IF /\ NamesDriver(file)
       /\ DriverOf(file) \in { <<"h", "i", "d", "p", "p", "1", "0">>, <<"h", "i", "d", "p", "p", "2", "0">> }
       /\ (<<"D", "r", "i", "v", "e", "r", "/">> \o DriverOf(file)) \in DOMAIN file.sections
    THEN file.sections[<<"D", "r", "i", "v", "e", "r", "/">> \o DriverOf(file)]
    ELSE <<>>

\* the value, read by int(value, 16), is a number in (0, 0xFF]
IndexInRange(value) ==
    /\ ParseInt(value, 16).ok
    /\ ParseInt(value, 16).val > 0
    /\ ParseInt(value, 16).val <= 255

\* C14: in a Driver/hidpp10 or Driver/hidpp20 section a DeviceIndex value is
\* accepted if and only if, read as a hexadecimal number, it lies in
\* (0, 0xFF]: the file is accepted exactly if the value is in the range and
\* the file without the key is accepted; 0 and 100 are out of the range, 1
\* and ff are in it.
C14_DeviceIndexRange ==
    (Called /\ "DeviceIndex" \in DOMAIN IndexedSection(arg)) =>
        /\ (ret = "ok") <=>
              /\ IndexInRange(IndexedSection(arg)["DeviceIndex"])
              /\ parse_data_file(WithoutDriverKey(arg, "DeviceIndex")) = "ok"
        /\ IndexedSection(arg)["DeviceIndex"] \in { <<"0">>, <<"1", "0", "0">> } => ret # "ok"
        /\ ( /\ IndexedSection(arg)["DeviceIndex"] \in { <<"1">>, <<"f", "f">> }
             /\ DOMAIN IndexedSection(arg) = {"DeviceIndex"} ) => ret = "ok"

\* a hidpp10 file with DeviceIndex=ff alone in its driver section was accepted
C14_Witness ==
    /\ Called /\ ret = "ok"
    /\ NamesDriver(arg) /\ DriverOf(arg) = <<"h", "i", "d", "p", "p", "1", "0">>
    /\ IndexedSection(arg) = SectionOf({ <<"DeviceIndex", <<"f", "f">>>> })

(***************************************************************************)
(* Further properties of main of test/data-parse-test.py, under SpecMain   *)
(***************************************************************************)

BracketCharacters == {"[", "]", "{", "}", "(", ")"}

HasBracket(s) == \E i \in 1..Len(s) : s[i] \in BracketCharacters

\* a file of a Device section with exactly Name, Driver=hidpp20, a canonical
\* DeviceMatch and DeviceType=mouse, and a Driver/hidpp20 section with only
\* DeviceIndex=1
IsMinimal(f) ==
    /\ f.strict
    /\ DOMAIN f.sections = {s_Device, <<"D", "r", "i", "v", "e", "r", "/", "h", "i", "d", "p", "p", "2", "0">>}
    /\ DOMAIN f.sections[s_Device] = {"Name", "Driver", "DeviceMatch", "DeviceType"}
    /\ f.sections[s_Device]["Driver"] = <<"h", "i", "d", "p", "p", "2", "0">>
    /\ CanonicalEntry(f.sections[s_Device]["DeviceMatch"])
    /\ f.sections[s_Device]["DeviceType"] = <<"m", "o", "u", "s", "e">>
    /\ f.sections[<<"D", "r", "i", "v", "e", "r", "/", "h", "i", "d", "p", "p", "2", "0">>] = SectionOf({ <<"DeviceIndex", <<"1">>>> })

\* C15: a minimal file passes parse_data_file, main reports no violation for
\* a minimal file whose path passes the name check, and a directory holding
\* only such files makes main exit 0.
C15_MinimalFileAccepted ==
    fn = "data-parse-test" =>
        LET fs == DeviceFiles(files)
        IN /\ \A i \in 1..Len(fs) :
                 IsMinimal(fs[i]) =>
                    /\ parse_data_file(Opened(arg, fs[i])) = "ok"
                    /\ ~HasBracket(path_str(arg, fs[i].name)) =>
                          \A k \in 1..Len(printed) :
                             printed[k][1] # path_str(arg, fs[i].name)
           /\ ( /\ ret # "none"
                /\ \A i \in 1..Len(fs) :
                      IsMinimal(fs[i]) /\ ~HasBracket(path_str(arg, fs[i].name)) )
              => (exit_code = 0 /\ ret = "ok" /\ printed = <<>>)

\* main went through a directory of two or more minimal files and exited 0
C15_Witness ==
    /\ fn = "data-parse-test" /\ ret = "ok" /\ exit_code = 0
    /\ Len(DeviceFiles(files)) >= 2
    /\ \A i \in 1..Len(DeviceFiles(files)) : IsMinimal(DeviceFiles(files)[i])
    /\ Len(calls) = 2 * Len(DeviceFiles(files))

\* the position of a call in the calls made so far, 0 if it was not made
CallAt(name, path) ==
    IF \E k \in 1..Len(calls) : calls[k] = <<name, path>>
    THEN Min({k \in 1..Len(calls) : calls[k] = <<name, path>>})
    ELSE 0

C17_UnreadableFileDoesNotAbort ==
    (fn \in {"duplicate-check", "receiver-check"} /\ ret # "none") =>
        LET fs == DeviceFiles(files)
            due == IF fn = "duplicate-check" THEN DuplicateLines(fs, Len(fs))
                   ELSE ReceiverLines(fs, Len(fs))
        IN /\ ret \in {"ok", "SystemExit"}
           /\ printed = due
           /\ exit_code = IF due # <<>> THEN 1 ELSE 0

(***************************************************************************)
(* Further properties of the field parsers, under SpecFields               *)
(***************************************************************************)

\* C18: check_match_str ignores only the empty segment that a trailing ";"
\* leaves: when it accepts a value, every other segment between semicolons,
\* an empty one at the start or in the middle included, splits on ":" into
\* exactly 3 parts.
C18_OnlyTrailingSegmentIgnored ==
    (fn = "check_match_str" /\ ret = "ok") =>
        LET matches == Split(arg, ";")
        IN \A i \in 1..Len(matches) :
              \/ i = Len(matches) /\ i > 1 /\ matches[i] = <<>>
              \/ Len(Split(matches[i], ":")) = 3

(***************************************************************************)
(* data/devices/receiver-check.py                                          *)
(***************************************************************************)

\* 0xc50c, 0xc517, 0xc512, 0xc513, 0xc51b, 0xc52b, 0xc52f, 0xc532, 0xc534,
\* 0xc539, 0xc53f, 0xc53a
devices_logitech_receivers ==
    << 50444, 50455, 50450, 50451, 50459, 50475, 50479, 50482, 50484,
       50489, 50495, 50490 >>

\* ['usb:046d:{}'.format(r) for r in logitech_receivers]: format() of an int
\* without a format spec renders it in decimal
DEVICES_RECEIVERS ==
    [i \in 1..Len(devices_logitech_receivers) |->
        <<"u", "s", "b", ":", "0", "4", "6", "d", ":">> \o FormatInt(devices_logitech_receivers[i])]

\* data['Device']['DeviceMatch'].split(';'), or the exception raised on the way
devices_receiver_check_parse_data_file(file) ==
    IF ~file.strict THEN [ok |-> FALSE, exc |-> "DuplicateError", matches |-> <<>>]
    ELSE IF s_Device \notin DOMAIN file.sections
         THEN [ok |-> FALSE, exc |-> "KeyError", matches |-> <<>>]
    ELSE IF "DeviceMatch" \notin DOMAIN file.sections[s_Device]
         THEN [ok |-> FALSE, exc |-> "KeyError", matches |-> <<>>]
    ELSE [ok |-> TRUE, exc |-> "ok",
          matches |-> Split(file.sections[s_Device]["DeviceMatch"], ";")]

\* "for m in matches": the flag and the lines printed after it
devices_scan_receivers(flag, lines, matches, fname) ==
    LET st[k \in 0..Len(matches)] ==
            IF k = 0 THEN [flag |-> flag, lines |-> lines]
            ELSE Only({IF \E i \in 1..Len(DEVICES_RECEIVERS) : DEVICES_RECEIVERS[i] = matches[k]
                       THEN [flag |-> TRUE, lines |-> Append(p.lines, <<matches[k], fname>>)]
                       ELSE p :
                         p \in {st[k - 1]}})
    IN st[Len(matches)]

\* parser.add_argument('file', nargs='+'): without a file argparse prints its
\* usage and exits 2
devices_receiver_check_usage ==
    /\ fn = "devices-receiver-check" /\ ret = "none"
    /\ Len(files) = 0
    /\ ret' = "SystemExit"
    /\ exit_code' = 2
    /\ UNCHANGED <<gobj, fn, arg, files, scanned, calls, printed, is_error, device_matches,
                   duplicates, receiver_found>>

\* one turn of "for path in args.file"; an exception of parse_data_file ends
\* the process
devices_receiver_check_file ==
    /\ fn = "devices-receiver-check" /\ ret = "none"
    /\ scanned < Len(files)
    /\ \E file \in {Opened(arg, files[scanned + 1])} :
         \E r \in {devices_receiver_check_parse_data_file(file)} :
            IF r.ok
            THEN \E st \in {devices_scan_receivers(receiver_found, printed, r.matches,
                                                   basename(file.path))} :
                    /\ receiver_found' = st.flag
                    /\ printed' = st.lines
                    /\ scanned' = scanned + 1
                    /\ UNCHANGED <<ret, exit_code>>
            ELSE /\ ret' = r.exc
                 /\ exit_code' = 1
                 /\ UNCHANGED <<receiver_found, printed, scanned>>
    /\ UNCHANGED <<gobj, fn, arg, files, calls, is_error, device_matches, duplicates>>

\* after the loop: "if receiver_found: sys.exit(1)"
devices_receiver_check_exit ==
    /\ fn = "devices-receiver-check" /\ ret = "none"
    /\ Len(files) > 0
    /\ scanned = Len(files)
    /\ ret' = IF receiver_found THEN "SystemExit" ELSE "ok"
    /\ exit_code' = IF receiver_found THEN 1 ELSE 0
    /\ UNCHANGED <<gobj, fn, arg, files, scanned, calls, printed, is_error, device_matches,
                   duplicates, receiver_found>>

\* the contents of the files named on the command line: those of the scans
\* of a directory, and a DeviceMatch with a product id in decimal
DevicesScanContents ==
    ScanContents \cup {Matching(<<"u", "s", "b", ":", "0", "4", "6", "d", ":", "5", "0", "4", "7", "5">>)}

\* the files are the arguments of the command line, here the files of the
\* directory data in the order of the listing
DevicesReceiverInit ==
    /\ fn = "devices-receiver-check" /\ arg = <<"d", "a", "t", "a">> /\ ret = "none"
    /\ files \in Listings({"device"}, DevicesScanContents)
    /\ ScanStart

DevicesReceiverNext ==
    devices_receiver_check_usage \/ devices_receiver_check_file \/ devices_receiver_check_exit

SpecDevicesReceiver == DevicesReceiverInit /\ [][DevicesReceiverNext]_vars

\* usb:046d:<id> for the ids of the list of data/devices/receiver-check.py,
\* as 4-digit lowercase hex
DevicesDeniedEntries ==
    { <<"u", "s", "b", ":", "0", "4", "6", "d", ":", "c", "5", "0", "c">>, <<"u", "s", "b", ":", "0", "4", "6", "d", ":", "c", "5", "1", "7">>, <<"u", "s", "b", ":", "0", "4", "6", "d", ":", "c", "5", "1", "2">>, <<"u", "s", "b", ":", "0", "4", "6", "d", ":", "c", "5", "1", "3">>,
      <<"u", "s", "b", ":", "0", "4", "6", "d", ":", "c", "5", "1", "b">>, <<"u", "s", "b", ":", "0", "4", "6", "d", ":", "c", "5", "2", "b">>, <<"u", "s", "b", ":", "0", "4", "6", "d", ":", "c", "5", "2", "f">>, <<"u", "s", "b", ":", "0", "4", "6", "d", ":", "c", "5", "3", "2">>,
      <<"u", "s", "b", ":", "0", "4", "6", "d", ":", "c", "5", "3", "4">>, <<"u", "s", "b", ":", "0", "4", "6", "d", ":", "c", "5", "3", "9">>, <<"u", "s", "b", ":", "0", "4", "6", "d", ":", "c", "5", "3", "f">>, <<"u", "s", "b", ":", "0", "4", "6", "d", ":", "c", "5", "3", "a">> }

\* C19: when data/devices/receiver-check.py has ended on files that all have
\* a readable DeviceMatch, every file whose DeviceMatch contains the entry
\* usb:046d:<id as 4-digit lowercase hex> for an id of logitech_receivers has
\* been reported with that entry and its name and the process has exited 1;
\* the process has exited 0 only if no file declares such an entry.
C19_DevicesReceiverReported ==
    ( /\ fn = "devices-receiver-check" /\ ret # "none"
      /\ \A i \in 1..Len(files) : Readable(files[i]) ) =>
        LET declared == {d \in (1..Len(files)) \X DevicesDeniedEntries :
                            Declares(files[d[1]], d[2])}
        IN /\ \A d \in declared :
                /\ \E l \in 1..Len(printed) : printed[l] = <<d[2], files[d[1]].name>>
                /\ exit_code = 1
           /\ exit_code = 0 => declared = {}

(***************************************************************************)
(* The quirk keys of the driver sections, under SpecParse                  *)
(***************************************************************************)

\* the quirk key of the section of a driver
QuirkKey(driver) == IF driver = s_asus THEN "Quirks" ELSE "Quirk"

\* the quirk names a value of the driver's quirk key may hold.
\* check_section_hidpp20 names no quirk; it is granted every quirk name that
\* the validator knows
QuirkNames(driver) ==
    IF driver = s_asus THEN ASUS_QUIRKS
    ELSE IF driver = s_steelseries THEN STEELSERIES_QUIRKS
    ELSE ASUS_QUIRKS \cup STEELSERIES_QUIRKS

\* C20: every quirk field is a closed set: in a file that parse_data_file
\* accepts, the value of the Quirks key of Driver/asus and of the Quirk key of
\* Driver/steelseries and Driver/hidpp20 holds no token, between semicolons,
\* outside the quirk names of that driver.
C20_QuirkValuesClosedSet ==
    ( /\ Called /\ ret = "ok"
      /\ NamesDriver(arg)
      /\ DriverOf(arg) \in {s_asus, s_steelseries, s_hidpp20}
      /\ driver_section_of(DriverOf(arg)) \in DOMAIN arg.sections ) =>
        LET section == arg.sections[driver_section_of(DriverOf(arg))]
            key == QuirkKey(DriverOf(arg))
        IN Has(section, key) =>
              \A token \in {Split(section[key], ";")[i] :
                              i \in 1..Len(Split(section[key], ";"))} :
                  token \in QuirkNames(DriverOf(arg))

(***************************************************************************)
(* data/devices/data-parse-test.py: the script                             *)
(***************************************************************************)

\* it raises AssertionError where the copy in test raises ValueError
devices_validate_data_file_name(path) ==
    IF \E i \in 1..Len(path) : path[i] \in ILLEGAL_CHARACTERS THEN "AssertionError" ELSE "ok"

\* the body of the loop: "ok", or the exception that leaves it
devices_main_body(path, file) ==
    Only({IF v # "ok" THEN v ELSE devices_parse_data_file(file) :
            v \in {devices_validate_data_file_name(path)}})

\* the calls that the body makes of the two functions
devices_main_calls(path) ==
    IF devices_validate_data_file_name(path) # "ok"
    THEN << <<"validate_data_file_name", path>> >>
    ELSE << <<"validate_data_file_name", path>>, <<"parse_data_file", path>> >>

\* parser.add_argument('file', nargs='+'): without a file argparse prints its
\* usage and exits 2
devices_main_usage ==
    /\ fn = "devices-data-parse-test" /\ ret = "none"
    /\ Len(files) = 0
    /\ ret' = "SystemExit"
    /\ exit_code' = 2
    /\ UNCHANGED <<gobj, fn, arg, files, scanned, calls, printed, is_error, device_matches,
                   duplicates, receiver_found>>

\* one turn of "for path in args.file": the loop has no try, an exception of
\* either function ends the process with a traceback and status 1.
\* parse_data_file prints the path it is called with
devices_main_file ==
    /\ fn = "devices-data-parse-test" /\ ret = "none"
    /\ scanned < Len(files)
    /\ \E file \in {Opened(arg, files[scanned + 1])} :
         \E outcome \in {devices_main_body(file.path, file)} :
            /\ calls' = calls \o devices_main_calls(file.path)
            /\ printed' = IF devices_validate_data_file_name(file.path) = "ok"
                          THEN Append(printed, file.path) ELSE printed
            /\ IF outcome = "ok"
               THEN /\ scanned' = scanned + 1
                    /\ UNCHANGED <<ret, exit_code>>
               ELSE /\ ret' = outcome
                    /\ exit_code' = 1
                    /\ UNCHANGED scanned
    /\ UNCHANGED <<gobj, fn, arg, files, is_error, device_matches, duplicates, receiver_found>>

\* the end of the script after the loop
devices_main_exit ==
    /\ fn = "devices-data-parse-test" /\ ret = "none"
    /\ Len(files) > 0
    /\ scanned = Len(files)
    /\ ret' = "ok"
    /\ exit_code' = 0
    /\ UNCHANGED <<gobj, fn, arg, files, scanned, calls, printed, is_error, device_matches,
                   duplicates, receiver_found>>

\* a file that the copy accepts, one with a key that no schema has, and one
\* with a key written twice
DevicesMainContents ==
    { [strict |-> TRUE,
       sections |-> Both(One(s_Device, DevicesBase(s_hidpp20)),
                         One(driver_section_of(s_hidpp20),
                             SectionOf({<<"DeviceIndex", <<"1">>>>})))],
      [strict |-> TRUE,
       sections |-> One(s_Device, With(DevicesBase(s_hidpp20), "Bogus", <<"1">>))],
      [strict |-> FALSE, sections |-> One(s_Device, DevicesBase(s_hidpp20))] }

\* the files are the arguments of the command line, here files of the
\* directory data in the order of the listing
DevicesMainInit ==
    /\ fn = "devices-data-parse-test" /\ arg = <<"d", "a", "t", "a">> /\ ret = "none"
    /\ files \in Listings({"device", "bracket"}, DevicesMainContents)
    /\ ScanStart

DevicesMainNext == devices_main_usage \/ devices_main_file \/ devices_main_exit

SpecDevicesMain == DevicesMainInit /\ [][DevicesMainNext]_vars

\* C21: in data/devices/data-parse-test.py a file that fails validation is a
\* failure of that file only: when the script has ended, every file of the
\* command line has been handed to validate_data_file_name, the files after
\* a failing one included.
C21_LaterFilesStillValidated ==
    (fn = "devices-data-parse-test" /\ ret # "none") =>
        \A i \in 1..Len(files) :
            \E c \in 1..Len(calls) :
                calls[c] = <<"validate_data_file_name", path_str(arg, files[i].name)>>

(***************************************************************************)
(* Repeated calls: a run of calls of the field parsers and of              *)
(* parse_data_file of test/data-parse-test.py in one process.  The module  *)
(* has no variable that a call assigns, and parse_data_file makes a new    *)
(* ConfigParser at every call; calls records <<function, input, verdict>>. *)
(***************************************************************************)

MaxCalls == 3

RepeatFunctions ==
    {"check_match_str", "check_dpi_range_str", "check_dpi_list_str",
     "check_devicetype_str", "check_profile_type_str", "parse_data_file"}

\* for each function an input that it accepts and one that it rejects
RepeatInputs(f) ==
    IF f = "check_match_str" THEN {<<"u", "s", "b", ":", "1", "2", "3", "4", ":", "5", "6", "7", "8">>, <<"u", "s", "b", ":", "1", "2", "3", "4">>}
    ELSE IF f = "check_dpi_range_str" THEN {<<"0", ":", "2", "0", "0", "0", "@", "1">>, <<"0", ":", "2", "0", "0", "0", "@", "1", ".", "0">>}
    ELSE IF f = "check_dpi_list_str" THEN {<<"1", "0", "0", ";", "2", "0", "0">>, <<"2", "0", "0", ";", "1", "0", "0">>}
    ELSE IF f = "check_devicetype_str" THEN {<<"m", "o", "u", "s", "e">>, <<"t", "r", "a", "c", "k", "b", "a", "l", "l">>}
    ELSE IF f = "check_profile_type_str" THEN {<<"G", "9">>, <<"G", "1">>}
    ELSE {FileOf(c.sections, c.strict) : c \in MainContents}

\* the call f(input): "ok" or the exception it raises
repeat_call(f, input) ==
    IF f = "check_match_str" THEN check_match_str(input)
    ELSE IF f = "check_dpi_range_str" THEN check_dpi_range_str(input)
    ELSE IF f = "check_dpi_list_str" THEN check_dpi_list_str(input)
    ELSE IF f = "check_devicetype_str" THEN check_devicetype_str(input)
    ELSE IF f = "check_profile_type_str" THEN check_profile_type_str(input)
    ELSE parse_data_file(input)

RepeatInit ==
    /\ fn \in RepeatFunctions /\ arg \in RepeatInputs(fn) /\ ret = "none"
    /\ files = <<>> /\ ScanStart

\* the call returns or raises
Repeat_call ==
    /\ fn \in RepeatFunctions /\ ret = "none"
    /\ \E v \in {repeat_call(fn, arg)} :
          /\ ret' = v
          /\ calls' = Append(calls, <<fn, arg, v>>)
    /\ UNCHANGED <<gobj, fn, arg, files, scanned, printed, is_error, device_matches,
                   duplicates, receiver_found, exit_code>>

\* the caller goes on to another call, of any of the functions on any input
Repeat_next ==
    /\ fn \in RepeatFunctions /\ ret # "none"
    /\ Len(calls) < MaxCalls
    /\ fn' \in RepeatFunctions
    /\ arg' \in RepeatInputs(fn')
    /\ ret' = "none"
    /\ UNCHANGED <<scan, gobj>>

RepeatNext == Repeat_call \/ Repeat_next

SpecRepeat == RepeatInit /\ [][RepeatNext]_vars

NoScript ==
    /\ files = <<>> /\ scanned = 0 /\ printed = <<>>
    /\ is_error = FALSE /\ device_matches = <<>>
    /\ duplicates = FALSE /\ receiver_found = FALSE
    /\ exit_code = -1

script == <<files, scanned, printed, is_error, device_matches, duplicates,
            receiver_found, exit_code>>

Last(s) == s[Len(s)]

(***************************************************************************)
(* RatbagdMacro                                                            *)
(***************************************************************************)

KEY_PRESS == 1

KEY_RELEASE == 2

WAIT == 3

\* RatbagdMacro.append with the test of the last entry left out
append_always(_macro, type, value) ==
    [_macro |-> Append(_macro, <<type, value>>), notify |-> <<"notify::keys">>]

\* RatbagdMacro.append: the list after it and the notifies it makes
append(_macro, type, value) ==
    IF Len(_macro) = 0 \/ <<type, value>> # Last(_macro)
    THEN [_macro |-> Append(_macro, <<type, value>>), notify |-> <<"notify::keys">>]
    ELSE [_macro |-> _macro, notify |-> <<>>]

\* RatbagdMacro.from_ratbag: the appends run under freeze_notify, which holds
\* the notifies back and emits one per property when it is left
from_ratbag(macro) ==
    LET st[k \in 0..Len(macro)] ==
            IF k = 0 THEN [_macro |-> <<>>, notify |-> <<>>]
            ELSE Only({[_macro |-> a._macro,
                        notify |-> IF st[k - 1].notify \o a.notify = <<>> THEN <<>>
                                   ELSE <<"notify::keys">>] :
                         a \in {append(st[k - 1]._macro, macro[k][1], macro[k][2])}})
    IN st[Len(macro)]

MaxMacroLen == 2

MaxAppends == 2

\* the events of a macro: key codes 30 and 31, and waits of 30 and 31 ms
MacroEvents == {KEY_PRESS, KEY_RELEASE, WAIT} \X {30, 31}

\* a macro made by RatbagdMacro() or by from_ratbag(arg)
MacroInit ==
    /\ fn = "RatbagdMacro" /\ arg \in Strs(MacroEvents, MaxMacroLen) /\ ret = "ok"
    /\ \E m \in {from_ratbag(arg)} :
          /\ self = [_macro |-> m._macro]
          /\ emitted = m.notify
    /\ proxy = <<>>
    /\ calls = <<>>
    /\ NoScript

\* macro.append(type, value)
Macro_append ==
    /\ fn = "RatbagdMacro"
    /\ Len(calls) < MaxAppends
    /\ \E e \in MacroEvents :
          \E a \in {append(self._macro, e[1], e[2])} :
             /\ self' = [self EXCEPT !._macro = a._macro]
             /\ emitted' = emitted \o a.notify
             /\ calls' = Append(calls, <<"append", e[1], e[2]>>)
    /\ UNCHANGED <<fn, arg, ret, proxy, script>>

MacroNext == Macro_append

SpecMacro == MacroInit /\ [][MacroNext]_vars

\* no two adjacent elements of a list are equal
NoRepeat(keys) == \A i \in 1..(Len(keys) - 1) : keys[i] # keys[i + 1]

\* C23: a RatbagdMacro, built by RatbagdMacro() or by from_ratbag, never
\* holds two identical consecutive entries, and each append(type, value)
\* made on it either finds (type, value) as the last entry, leaves keys
\* unchanged and emits nothing, or adds that one entry at the end and emits
\* notify::keys once.
C23_NoIdenticalConsecutiveEntries ==
    /\ [](fn = "RatbagdMacro" => NoRepeat(self._macro))
    /\ [][(fn = "RatbagdMacro" /\ calls' # calls) =>
            LET e == <<Last(calls')[2], Last(calls')[3]>>
            IN IF self._macro # <<>> /\ e = Last(self._macro)
               THEN self'._macro = self._macro /\ emitted' = emitted
               ELSE /\ self'._macro = Append(self._macro, e)
                    /\ emitted' = Append(emitted, "notify::keys")]_vars

\* an append of the last entry of a macro from from_ratbag, after an append
\* that added an entry
C23_Witness ==
    /\ fn = "RatbagdMacro" /\ Len(arg) = 2 /\ arg[1] = arg[2]
    /\ Len(calls) = 2
    /\ <<calls[1][2], calls[1][3]>> # arg[1]
    /\ calls[2] = calls[1]
    /\ Len(self._macro) = 2
    /\ Len(emitted) = 2

(***************************************************************************)
(* Ratbagd: the list of devices.  A RatbagdDevice is held as its object    *)
(* path, by which __eq__ compares two of them.                             *)
(***************************************************************************)

Range(s) == {s[i] : i \in 1..Len(s)}

\* list.remove(x): the list without the first of its elements equal to x
remove(list, x) ==
    Only({SubSeq(list, 1, i - 1) \o SubSeq(list, i + 1, Len(list)) :
            i \in {Min({j \in 1..Len(list) : list[j] = x})}})

\* "for object_path in new_device_object_paths": object_paths is the list of
\* paths taken before the loop
add_devices(_devices, new_device_object_paths) ==
    LET object_paths == Range(_devices)
        st[k \in 0..Len(new_device_object_paths)] ==
            IF k = 0 THEN [_devices |-> _devices, emitted |-> <<>>]
            ELSE IF new_device_object_paths[k] \notin object_paths
                 THEN [_devices |-> Append(st[k - 1]._devices, new_device_object_paths[k]),
                       emitted |-> Append(st[k - 1].emitted,
                                          <<"device-added", new_device_object_paths[k]>>)]
            ELSE st[k - 1]
    IN st[Len(new_device_object_paths)]

\* "for device in self.devices": the property returns the list _devices
\* itself, so the loop runs over the list it removes from; the list iterator
\* goes by position, i is the position of the next element it yields
RECURSIVE remove_devices(_, _, _, _)
remove_devices(_devices, i, new_device_object_paths, out) ==
    IF i > Len(_devices) THEN [_devices |-> _devices, emitted |-> out]
    ELSE IF _devices[i] \notin Range(new_device_object_paths)
         THEN remove_devices(remove(_devices, _devices[i]), i + 1, new_device_object_paths,
                             Append(out, <<"device-removed", _devices[i]>>))
    ELSE remove_devices(_devices, i + 1, new_device_object_paths, out)

\* Ratbagd._on_properties_changed
ratbagd_on_properties_changed(_devices, changed_props) ==
    IF "Devices" \notin DOMAIN changed_props
    THEN [_devices |-> _devices, emitted |-> <<>>]
    ELSE Only({[_devices |-> r._devices,
                emitted |-> r.emitted \o << <<"notify::devices">> >>] :
                 r \in {remove_devices(a._devices, 1, changed_props["Devices"], a.emitted) :
                          a \in {add_devices(_devices, changed_props["Devices"])}}})

MaxEvents == 2

\* the object paths of three devices
DevicePaths == {"/org/freedesktop/ratbag1/device/d1", "/org/freedesktop/ratbag1/device/d2",
                "/org/freedesktop/ratbag1/device/d3"}

\* the lists of devices of the daemon: each device once, in any order
DeviceLists == {l \in Strs(DevicePaths, Cardinality(DevicePaths)) :
                  \A i \in 1..Len(l) : \A j \in 1..Len(l) : l[i] = l[j] => i = j}

\* the changed properties of an event: the Devices property, or another one
RatbagdChanges ==
    {[p \in {"Devices"} |-> l] : l \in DeviceLists} \cup {[p \in {"APIVersion"} |-> 2]}

\* Ratbagd.__init__: a device for each path of the Devices property
RatbagdInit ==
    /\ fn = "Ratbagd" /\ arg \in DeviceLists /\ ret = "ok"
    /\ self = [_devices |-> arg]
    /\ proxy = <<>>
    /\ emitted = <<>>
    /\ calls = <<>>
    /\ NoScript

\* the proxy's g-properties-changed signal
Ratbagd_on_properties_changed ==
    /\ fn = "Ratbagd"
    /\ Len(calls) < MaxEvents
    /\ \E changed_props \in RatbagdChanges :
          \E r \in {ratbagd_on_properties_changed(self._devices, changed_props)} :
             /\ self' = [self EXCEPT !._devices = r._devices]
             /\ emitted' = emitted \o r.emitted
             /\ calls' = Append(calls, <<"_on_properties_changed", changed_props>>)
    /\ UNCHANGED <<fn, arg, ret, proxy, script>>

RatbagdNext == Ratbagd_on_properties_changed

SpecRatbagd == RatbagdInit /\ [][RatbagdNext]_vars

\* the number of elements of s equal to x
Count(s, x) == Cardinality({i \in 1..Len(s) : s[i] = x})

\* C24: after Ratbagd has handled a properties-changed event with Devices = P
\* the set of object paths of its devices is exactly P: device-added was
\* emitted once for each path of P that was not in the list and for no other,
\* device-removed once for each listed device whose path is not in P and for
\* no other, and the devices whose path is in both are kept.
C24_DevicesFollowEvent ==
    [][(fn = "Ratbagd" /\ calls' # calls /\ "Devices" \in DOMAIN Last(calls')[2]) =>
          LET P == Range(Last(calls')[2]["Devices"])
              old == Range(self._devices)
              new == SubSeq(emitted', Len(emitted) + 1, Len(emitted'))
          IN /\ Range(self'._devices) = P
             /\ \A path \in DevicePaths :
                   /\ Count(new, <<"device-added", path>>)
                         = IF path \in P \ old THEN 1 ELSE 0
                   /\ Count(new, <<"device-removed", path>>)
                         = IF path \in old \ P THEN 1 ELSE 0
                   /\ Count(self'._devices, path) = IF path \in P THEN 1 ELSE 0]_vars

(***************************************************************************)
(* RatbagdProfile, RatbagdResolution, RatbagdLed: the cached properties.   *)
(* A Python value is a tuple that starts with the name of its type, so     *)
(* that an int is no bool and no tuple; None is the value of a property    *)
(* that the proxy has not cached.  For these objects arg is the last call  *)
(* or event, ret its outcome, emitted the notifies it made.                *)
(***************************************************************************)

PyNone == <<"None">>

PyBool(b) == <<"bool", b>>

PyInt(n) == <<"int", n>>

PyTuple(s) == <<"tuple">> \o s

\* bool(value) of PyNone, a bool or an int
Truthy(value) ==
    IF value[1] = "bool" THEN value[2]
    ELSE IF value[1] = "int" THEN value[2] # 0
    ELSE FALSE

\* len(value) of a tuple
PyLen(value) == Len(value) - 1

\* RatbagdResolution._convert_resolution_from_dbus
_convert_resolution_from_dbus(res) ==
    IF res[1] = "int" THEN PyTuple(<<res[2]>>) ELSE res

\* self._proxy.get_cached_property(property), unpacked, or PyNone
_get_dbus_property(cached, property) ==
    IF property \in DOMAIN cached THEN cached[property] ELSE PyNone

\* the try blocks of _on_properties_changed, in their order: the property,
\* the field that caches it, and the name of its notify
Blocks(class) ==
    IF class = "RatbagdProfile"
    THEN << <<"AngleSnapping", "_angle_snapping", "notify::angle-snapping">>,
            <<"Debounce", "_debounce", "notify::debounce">>,
            <<"Disabled", "_disabled", "notify::disabled">>,
            <<"IsActive", "_active", "notify::is-active">>,
            <<"IsDirty", "_dirty", "notify::dirty">>,
            <<"ReportRate", "_report_rate", "notify::report-rate">> >>
    ELSE IF class = "RatbagdResolution"
    THEN << <<"Resolution", "_resolution", "notify::resolution">>,
            <<"IsActive", "_active", "notify::is-active">>,
            <<"IsDefault", "_default", "notify::is-default">>,
            <<"IsDisabled", "_disabled", "notify::is-disabled">> >>
    ELSE << <<"Brightness", "_brightness", "notify::brightness">>,
            <<"Color", "_color", "notify::color">>,
            <<"EffectDuration", "_effect_duration", "notify::effect-duration">>,
            <<"Mode", "_mode", "notify::mode">> >>

\* the value of a property as a block of the handler compares and stores it
Received(property, value) ==
    IF property = "Resolution" THEN _convert_resolution_from_dbus(value) ELSE value

\* a handler that stores and notifies whatever the event carries
on_properties_changed_uncompared(class, fields, changed_props) ==
    LET blocks == Blocks(class)
        st[k \in 0..Len(blocks)] ==
            IF k = 0 THEN [fields |-> fields, emitted |-> <<>>]
            ELSE IF blocks[k][1] \notin DOMAIN changed_props THEN st[k - 1]
            ELSE [fields |-> [st[k - 1].fields EXCEPT
                                ![blocks[k][2]] = Received(blocks[k][1], changed_props[blocks[k][1]])],
                  emitted |-> Append(st[k - 1].emitted, blocks[k][3])]
    IN st[Len(blocks)]

\* _on_properties_changed of the three classes: the fields after it and the
\* notifies it makes
on_properties_changed(class, fields, changed_props) ==
    LET blocks == Blocks(class)
        st[k \in 0..Len(blocks)] ==
            IF k = 0 THEN [fields |-> fields, emitted |-> <<>>]
            ELSE IF blocks[k][1] \notin DOMAIN changed_props THEN st[k - 1]
            ELSE Only({IF value # st[k - 1].fields[blocks[k][2]]
                       THEN [fields |-> [st[k - 1].fields EXCEPT ![blocks[k][2]] = value],
                             emitted |-> Append(st[k - 1].emitted, blocks[k][3])]
                       ELSE st[k - 1] :
                         value \in {Received(blocks[k][1], changed_props[blocks[k][1]])}})
    IN st[Len(blocks)]

\* RatbagdProfile._on_obj_notify without its test of the flag
_on_obj_notify_untested(fields) ==
    [fields |-> [fields EXCEPT !["_dirty"] = PyBool(TRUE)], emitted |-> <<"notify::dirty">>]

\* RatbagdProfile._on_obj_notify
_on_obj_notify(fields) ==
    IF ~Truthy(fields["_dirty"])
    THEN [fields |-> [fields EXCEPT !["_dirty"] = PyBool(TRUE)], emitted |-> <<"notify::dirty">>]
    ELSE [fields |-> fields, emitted |-> <<>>]

\* __init__ of the three classes: the fields from the properties that the
\* proxy has cached
InitFields(class, cached) ==
    [f \in {Blocks(class)[k][2] : k \in 1..Len(Blocks(class))} |->
        LET property == Only({Blocks(class)[k][1] :
                                k \in {j \in 1..Len(Blocks(class)) : Blocks(class)[j][2] = f}})
        IN Received(property, _get_dbus_property(cached, property))]

\* two values of each property, and of Index, which no handler caches
FirstValue(property) ==
    IF property \in {"Disabled", "IsActive", "IsDirty", "IsDefault", "IsDisabled"}
    THEN PyBool(FALSE)
    ELSE IF property = "Resolution" THEN PyInt(800)
    ELSE IF property = "Color" THEN PyTuple(<<255, 0, 0>>)
    ELSE IF property = "Debounce" THEN PyInt(5)
    ELSE IF property = "ReportRate" THEN PyInt(500)
    ELSE PyInt(0)

SecondValue(property) ==
    IF property \in {"Disabled", "IsActive", "IsDirty", "IsDefault", "IsDisabled"}
    THEN PyBool(TRUE)
    ELSE IF property = "Resolution" THEN PyTuple(<<800, 1600>>)
    ELSE IF property = "Color" THEN PyTuple(<<0, 0, 255>>)
    ELSE IF property = "Debounce" THEN PyInt(10)
    ELSE IF property = "ReportRate" THEN PyInt(1000)
    ELSE IF property = "EffectDuration" THEN PyInt(1000)
    ELSE IF property = "Brightness" THEN PyInt(255)
    ELSE PyInt(1)

\* a Resolution also comes as the tuple of its one value
PropertyValues(property) ==
    {FirstValue(property), SecondValue(property)}
    \cup (IF property = "Resolution" THEN {PyTuple(<<800>>)} ELSE {})

Properties(class) == {Blocks(class)[k][1] : k \in 1..Len(Blocks(class))} \cup {"Index"}

\* the changed_props of an event: no property, one property with one of its
\* values, or all of them with their first or with their second values
Changes(class) ==
    {<<>>}
    \cup UNION {{[q \in {p} |-> v] : v \in PropertyValues(p)} : p \in Properties(class)}
    \cup {[p \in Properties(class) |-> FirstValue(p)],
          [p \in Properties(class) |-> SecondValue(p)]}

\* the properties cached at construction: all of them, or those alone that
\* __init__ needs (Resolution and Mode must not be PyNone)
Caches(class) ==
    UNION {{[p \in S |-> FirstValue(p)], [p \in S |-> SecondValue(p)]} :
             S \in {Properties(class), Properties(class) \cap {"Resolution", "Mode"}}}

HandlerClasses == {"RatbagdProfile", "RatbagdResolution", "RatbagdLed"}

HandlerInit ==
    /\ fn \in HandlerClasses /\ arg = <<"__init__">> /\ ret = "ok"
    /\ \E cached \in Caches(fn) :
          /\ proxy = [cached |-> cached, sent |-> <<>>]
          /\ self = InitFields(fn, cached)
    /\ emitted = <<>>
    /\ calls = <<>>
    /\ NoScript

\* the proxy's g-properties-changed signal
Handler_on_properties_changed ==
    /\ fn \in HandlerClasses
    /\ \E changed_props \in Changes(fn) :
          \E r \in {on_properties_changed(fn, self, changed_props)} :
             /\ self' = r.fields
             /\ emitted' = r.emitted
             /\ arg' = <<"_on_properties_changed", changed_props>>
    /\ UNCHANGED <<fn, ret, proxy, calls, script>>

\* a notify of one of the resolutions, buttons or leds of a profile
Handler_on_obj_notify ==
    /\ fn = "RatbagdProfile"
    /\ \E r \in {_on_obj_notify(self)} :
          /\ self' = r.fields
          /\ emitted' = r.emitted
          /\ arg' = <<"_on_obj_notify">>
    /\ UNCHANGED <<fn, ret, proxy, calls, script>>

HandlerNext == Handler_on_properties_changed \/ Handler_on_obj_notify

SpecHandlers == HandlerInit /\ [][HandlerNext]_vars

(***************************************************************************)
(* Properties of the handlers, under SpecHandlers                          *)
(***************************************************************************)

\* C25: a notify of a resolution, button or led of a profile sets the dirty
\* flag of the profile to True and emits notify::dirty only if the flag was
\* not True before it (never while it is True already); the flag becomes
\* False only by a properties-changed event whose IsDirty value differs from
\* the cached one, and that event emits notify::dirty exactly once.
C25_DirtyTracking ==
    [][fn = "RatbagdProfile" =>
         /\ arg' = <<"_on_obj_notify">> =>
               /\ self' = [self EXCEPT !["_dirty"] = PyBool(TRUE)]
               /\ emitted' = IF Truthy(self["_dirty"]) THEN <<>> ELSE <<"notify::dirty">>
         /\ (self'["_dirty"] = PyBool(FALSE) /\ self["_dirty"] # PyBool(FALSE)) =>
               /\ arg'[1] = "_on_properties_changed"
               /\ "IsDirty" \in DOMAIN arg'[2]
               /\ arg'[2]["IsDirty"] # self["_dirty"]
               /\ Count(emitted', "notify::dirty") = 1]_vars

\* a notify came to a profile whose flag was True: nothing was emitted
C25_Witness ==
    /\ fn = "RatbagdProfile" /\ arg = <<"_on_obj_notify">>
    /\ self["_dirty"] = PyBool(TRUE)
    /\ emitted = <<>>

\* C26: _on_properties_changed of RatbagdProfile, RatbagdResolution and
\* RatbagdLed changes only what the event carries: the field that caches a
\* property is replaced, and the notify of the property emitted once, if and
\* only if the property is in changed_props with a value (a Resolution as
\* the tuple it is kept as) that differs from the cached one; every other
\* field is unchanged and nothing else is emitted.
C26_HandlersChangeOnlyWhatChanged ==
    [][(fn \in HandlerClasses /\ arg'[1] = "_on_properties_changed") =>
         LET changed_props == arg'[2]
             blocks == Blocks(fn)
             differs(k) == /\ blocks[k][1] \in DOMAIN changed_props
                           /\ Received(blocks[k][1], changed_props[blocks[k][1]])
                                 # self[blocks[k][2]]
         IN /\ \A k \in 1..Len(blocks) :
                  /\ self'[blocks[k][2]] =
                        IF differs(k) THEN Received(blocks[k][1], changed_props[blocks[k][1]])
                        ELSE self[blocks[k][2]]
                  /\ Count(emitted', blocks[k][3]) = IF differs(k) THEN 1 ELSE 0
            /\ Len(emitted') = Cardinality({k \in 1..Len(blocks) : differs(k)})
            /\ DOMAIN self' = DOMAIN self]_vars

\* an event with every property, of which some had the cached value and some
\* had not, among them a Resolution that came as an int and is cached as the
\* tuple of that int
C26_Witness ==
    /\ fn = "RatbagdResolution" /\ arg[1] = "_on_properties_changed"
    /\ DOMAIN arg[2] = Properties(fn)
    /\ arg[2]["Resolution"] = PyInt(800)
    /\ self["_resolution"] = PyTuple(<<800>>)
    /\ emitted # <<>>
    /\ Count(emitted, "notify::resolution") = 0

(***************************************************************************)
(* The setters of RatbagdProfile and RatbagdResolution.  A call on the bus *)
(* returns, times out, or fails with another GLib.Error; proxy.sent holds  *)
(* the calls sent during the last call of a setter.                        *)
(***************************************************************************)

BusOutcomes == {"ok", "timeout", "error"}

\* _set_dbus_property that writes the local copy before the call
_set_dbus_property_eager(bus, property, value, readwrite, outcome) ==
    [proxy |-> [cached |-> [p \in DOMAIN bus.cached \cup {property} |->
                               IF p = property THEN value ELSE bus.cached[p]],
                sent |-> IF readwrite
                         THEN Append(bus.sent, <<"org.freedesktop.DBus.Properties.Set",
                                                 property, value>>)
                         ELSE bus.sent],
     ret |-> IF readwrite /\ outcome # "ok" THEN "GLib.Error" ELSE "ok"]

\* _RatbagdDBus._set_dbus_property: the proxy after it, and "ok" or the
\* exception that call_sync raises, which nothing catches here
_set_dbus_property(bus, property, value, readwrite, outcome) ==
    IF readwrite /\ outcome # "ok"
    THEN [proxy |-> [bus EXCEPT !.sent = Append(bus.sent,
                                    <<"org.freedesktop.DBus.Properties.Set", property, value>>)],
          ret |-> "GLib.Error"]
    ELSE [proxy |-> [cached |-> [p \in DOMAIN bus.cached \cup {property} |->
                                    IF p = property THEN value ELSE bus.cached[p]],
                     sent |-> IF readwrite
                              THEN Append(bus.sent, <<"org.freedesktop.DBus.Properties.Set",
                                                      property, value>>)
                              ELSE bus.sent],
          ret |-> "ok"]

\* _RatbagdDBus._dbus_call: the result of call_sync is a GLib.Variant, which
\* is no key of EXCEPTION_TABLE, so a call that returns raises nothing
_dbus_call(bus, method, outcome) ==
    [proxy |-> [bus EXCEPT !.sent = Append(bus.sent, <<method>>)],
     ret |-> IF outcome = "ok" THEN "ok"
             ELSE IF outcome = "timeout" THEN "RatbagdDBusTimeoutError"
             ELSE "GLib.Error"]

\* set_active and set_default: the call, then the local copy
set_flag(bus, method, property, outcome) ==
    Only({IF c.ret # "ok" THEN c
          ELSE _set_dbus_property(c.proxy, property, PyBool(TRUE), FALSE, outcome) :
            c \in {_dbus_call(bus, method, outcome)}})

\* the resolution setter without its test of the lengths
resolution_setter_unchecked(bus, _resolution, resolution, outcome) ==
    _set_dbus_property(bus, "Resolution",
                       IF PyLen(_resolution) = 1 THEN PyInt(resolution[2]) ELSE resolution,
                       TRUE, outcome)

\* the setter of RatbagdResolution.resolution
resolution_setter(bus, _resolution, resolution, outcome) ==
    IF PyLen(_resolution) # PyLen(resolution) \/ PyLen(_resolution) > 2
    THEN [proxy |-> bus, ret |-> "ValueError"]
    ELSE _set_dbus_property(bus, "Resolution",
                            IF PyLen(_resolution) = 1 THEN PyInt(resolution[2]) ELSE resolution,
                            TRUE, outcome)

\* the resolutions given to the setter
SetterResolutions ==
    {PyTuple(<<1600>>), PyTuple(<<800, 1600>>), PyTuple(<<400, 800, 1600>>)}

\* the properties cached at construction: those of the handlers, and for a
\* resolution also a Resolution of three values
SetterCaches(class) ==
    {c \in Caches(class) : DOMAIN c = Properties(class)}
    \cup (IF class = "RatbagdResolution"
          THEN {[p \in Properties(class) |->
                    IF p = "Resolution" THEN PyTuple(<<400, 800, 1600>>) ELSE FirstValue(p)]}
          ELSE {})

SetterClasses == {"RatbagdProfile", "RatbagdResolution"}

SetterInit ==
    /\ fn \in SetterClasses /\ arg = <<"__init__">> /\ ret = "ok"
    /\ \E cached \in SetterCaches(fn) :
          /\ proxy = [cached |-> cached, sent |-> <<>>]
          /\ self = InitFields(fn, cached)
    /\ emitted = <<>>
    /\ calls = <<>>
    /\ NoScript

\* the call of a setter on the proxy as it was left by the call before
Cleared == [proxy EXCEPT !.sent = <<>>]

\* resolution.resolution = value
Setter_resolution ==
    /\ fn = "RatbagdResolution"
    /\ \E resolution \in SetterResolutions : \E outcome \in BusOutcomes :
          \E r \in {resolution_setter(Cleared, self["_resolution"], resolution, outcome)} :
             /\ proxy' = r.proxy
             /\ ret' = r.ret
             /\ arg' = <<"resolution", resolution, outcome>>
    /\ UNCHANGED <<fn, self, emitted, calls, script>>

\* profile.disabled = value and resolution.set_disabled(value)
Setter_disabled ==
    /\ fn \in SetterClasses
    /\ \E value \in BOOLEAN : \E outcome \in BusOutcomes :
          \E r \in {_set_dbus_property(Cleared,
                                       IF fn = "RatbagdProfile" THEN "Disabled" ELSE "IsDisabled",
                                       PyBool(value), TRUE, outcome)} :
             /\ proxy' = r.proxy
             /\ ret' = r.ret
             /\ arg' = <<"disabled", PyBool(value), outcome>>
    /\ UNCHANGED <<fn, self, emitted, calls, script>>

\* profile.set_active() and resolution.set_active()
Setter_set_active ==
    /\ fn \in SetterClasses
    /\ \E outcome \in BusOutcomes :
          \E r \in {set_flag(Cleared, "SetActive", "IsActive", outcome)} :
             /\ proxy' = r.proxy
             /\ ret' = r.ret
             /\ arg' = <<"set_active", "IsActive", outcome>>
    /\ UNCHANGED <<fn, self, emitted, calls, script>>

\* resolution.set_default()
Setter_set_default ==
    /\ fn = "RatbagdResolution"
    /\ \E outcome \in BusOutcomes :
          \E r \in {set_flag(Cleared, "SetDefault", "IsDefault", outcome)} :
             /\ proxy' = r.proxy
             /\ ret' = r.ret
             /\ arg' = <<"set_default", "IsDefault", outcome>>
    /\ UNCHANGED <<fn, self, emitted, calls, script>>

SetterNext ==
    Setter_resolution \/ Setter_disabled \/ Setter_set_active \/ Setter_set_default

SpecSetters == SetterInit /\ [][SetterNext]_vars

\* C27: the resolution setter rejects a tuple whose length differs from that
\* of the cached resolution, and any tuple when the cached resolution has
\* more than 2 values, with ValueError before anything is sent: no call is
\* made on the bus and neither the proxy's cached properties nor the fields
\* of the object change.
C27_SetterRejectsBeforeSending ==
    [][(fn = "RatbagdResolution" /\ arg'[1] = "resolution"
        /\ (PyLen(self["_resolution"]) # PyLen(arg'[2]) \/ PyLen(self["_resolution"]) > 2)) =>
          /\ ret' = "ValueError"
          /\ proxy'.sent = <<>>
          /\ proxy'.cached = proxy.cached
          /\ self' = self]_vars

\* the setter was given two values for a resolution of one value, and three
\* values for a resolution of three
C27_Witness ==
    /\ fn = "RatbagdResolution" /\ arg[1] = "resolution" /\ ret = "ValueError"
    /\ \/ PyLen(self["_resolution"]) = 1 /\ PyLen(arg[2]) = 2
       \/ PyLen(self["_resolution"]) = 3 /\ PyLen(arg[2]) = 3

\* C28: the local copy follows the call on the bus: a setter that goes
\* through _set_dbus_property with readwrite=True sets the proxy's cached
\* property only when Properties.Set has returned, set_active and
\* set_default set the cached IsActive and IsDefault to True only when
\* SetActive and SetDefault have returned, and when the call raises (a
\* timeout or another error) the setter raises and the cached properties
\* keep their values.
C28_CacheFollowsBusCall ==
    [][(fn \in SetterClasses /\ arg'[1] \in {"resolution", "disabled", "set_active", "set_default"}
        /\ ret' # "ValueError") =>
          LET outcome == arg'[3]
              property == IF arg'[1] = "resolution" THEN "Resolution"
                          ELSE IF arg'[1] = "disabled"
                               THEN (IF fn = "RatbagdProfile" THEN "Disabled" ELSE "IsDisabled")
                          ELSE arg'[2]
          IN /\ Len(proxy'.sent) = 1
             /\ outcome # "ok" => (ret' # "ok" /\ proxy'.cached = proxy.cached)
             /\ outcome = "ok" =>
                   /\ ret' = "ok"
                   /\ \A p \in DOMAIN proxy.cached \ {property} :
                         proxy'.cached[p] = proxy.cached[p]
                   /\ arg'[1] \in {"set_active", "set_default"} =>
                         proxy'.cached[property] = PyBool(TRUE)
                   /\ arg'[1] = "disabled" => proxy'.cached[property] = arg'[2]]_vars

\* set_active timed out on an object whose cached IsActive is False, and
\* Properties.Set failed for a property that keeps its value
C28_Witness ==
    \/ /\ fn \in SetterClasses /\ arg[1] = "set_active" /\ arg[3] = "timeout"
       /\ ret = "RatbagdDBusTimeoutError"
       /\ proxy.cached["IsActive"] = PyBool(FALSE)
    \/ /\ fn = "RatbagdResolution" /\ arg[1] = "disabled" /\ arg[3] = "error"
       /\ ret = "GLib.Error"
       /\ arg[2] = PyBool(TRUE) /\ proxy.cached["IsDisabled"] = PyBool(FALSE)

(***************************************************************************)
(* The two copies of check_dpi_range_str, under SpecFields                 *)
(***************************************************************************)

\* C29: check_dpi_range_str of data/devices/data-parse-test.py and of
\* test/data-parse-test.py accept the same strings: a DpiRange value passes
\* one if and only if it passes the other.
C29_DpiRangeCopiesAgree ==
    (fn = "check_dpi_range_str" /\ ret # "none") =>
        (ret = "ok" <=> devices_check_dpi_range_str(arg) = "ok")

(***************************************************************************)
(* The order of the scan of duplicate-check.py, under SpecDuplicate        *)
(***************************************************************************)

\* a run of duplicate-check.py over a listing in the order of the listing:
\* its exit status and the lines it prints
duplicate_check_run(directory, listing) ==
    LET fs == glob(listing)
        st[k \in 0..Len(fs)] ==
            IF k = 0 THEN [index |-> <<>>, flag |-> FALSE, lines |-> <<>>, ret |-> "none"]
            ELSE IF st[k - 1].ret # "none" THEN st[k - 1]
            ELSE Only({IF r.ok
                       THEN Only({[index |-> s.index, flag |-> s.flag, lines |-> s.lines,
                                   ret |-> "none"] :
                                    s \in {scan_matches(st[k - 1].index, st[k - 1].flag,
                                                        st[k - 1].lines, r.matches,
                                                        fs[k].name)}})
                       ELSE [st[k - 1] EXCEPT !.ret = r.exc] :
                         r \in {duplicate_check_parse_data_file(Opened(directory, fs[k]))}})
    IN [exit_code |-> IF st[Len(fs)].ret # "none" \/ st[Len(fs)].flag THEN 1 ELSE 0,
        printed |-> st[Len(fs)].lines]

\* the orders in which a directory can yield the files of a listing
Orders(listing) ==
    {[i \in 1..Len(listing) |-> listing[p[i]]] :
        p \in {q \in [1..Len(listing) -> 1..Len(listing)] :
                 \A i \in 1..Len(listing) : \A j \in 1..Len(listing) : q[i] = q[j] => i = j}}

\* C30: the exit status of duplicate-check.py does not depend on the order
\* in which the files of the directory are scanned: the run over any other
\* order of the same files has the exit status of this run and prints as
\* many duplicate lines.
C30_ScanOrderIndependent ==
    (fn = "duplicate-check" /\ ret # "none") =>
        \A other \in Orders(files) :
            \E o \in {duplicate_check_run(arg, other)} :
               /\ o.exit_code = exit_code
               /\ Len(o.printed) = Len(printed)

====
